---- MODULE Spec2Model ----
(***************************************************************************)
(* A state-machine model of UQpy's GaussianProcessRegressor                *)
(* (src/src/UQpy/surrogates/GPR/GaussianProcessRegressor.py): the          *)
(* constructor, fit (entry, one step per optimizer restart, selection and  *)
(* final factorization) and predict, together with the optimizer object    *)
(* the regressor shares and numpy's process-global random generator.       *)
(*                                                                         *)
(* Numbers are exact symbolic reals <<tag, n>>:                            *)
(*   <<"int", n>>  the integer n            <<"pow", e>>  10^e, e < 0      *)
(*   <<"log", n>>  log10(n), n >= 2 not a power of ten                     *)
(*   <<"inf", 0>>, <<"ninf", 0>>, <<"nan", 0>>  IEEE +inf, -inf, NaN       *)
(*   <<"real", 0>> a finite real the model does not track further          *)
(* Arrays are records [id, shape]; matrices computed from them (K, cc,     *)
(* alpha_, predictions) are symbolic terms <<operation, operands...>>.     *)
(* None is the empty tuple for terms and lists, and NoArray for arrays.    *)
(***************************************************************************)
EXTENDS Integers, Sequences, FiniteSets, TLC

VARIABLES gp, optimizer, np_random, pc, frame, call, prediction, calls

\* the SvdProjection a caller constructed and what reconstruct_solution
\* returned to it
VARIABLES projection, reconstruction

\* the ManifoldInterpolation a caller constructed and what interpolate_manifold
\* returned to it
VARIABLES manifold, manifold_point

\* the stochastic process a caller constructed, with the sample counts of the
\* runs that returned
VARIABLES process

\* the InformationModelSelection a caller constructed
VARIABLES selection

\* the TaylorSeries call a caller made
VARIABLES taylor

\* the TaylorSeries construction a caller made
VARIABLES series

\* the Hermite polynomials a caller constructed and what get_polys returned
VARIABLES hermite

vars == <<gp, optimizer, np_random, pc, frame, call, prediction, calls,
          projection, reconstruction, manifold, manifold_point, process,
          selection, taylor, series, hermite>>

\* the variables of the regressor, and the variables of the other classes
gpr_vars == <<gp, optimizer, np_random, pc, frame, call, prediction, calls>>

svd_vars == <<projection, reconstruction>>

mi_vars == <<manifold, manifold_point>>

not_gpr == <<svd_vars, mi_vars, process, selection, taylor, series, hermite>>

not_svd == <<gpr_vars, mi_vars, process, selection, taylor, series, hermite>>

not_mi == <<gpr_vars, svd_vars, process, selection, taylor, series, hermite>>

not_srm == <<gpr_vars, svd_vars, mi_vars, selection, taylor, series, hermite>>

not_ims == <<gpr_vars, svd_vars, mi_vars, process, taylor, series, hermite>>

not_ts == <<gpr_vars, svd_vars, mi_vars, process, selection, hermite>>

not_pce == <<gpr_vars, svd_vars, mi_vars, process, selection, taylor, series>>

----------------------------------------------------------------------------
(* Bounds of the model *)

\* largest optimizations_number a caller passes
MaxRestarts == 2

\* number of states of the modelled global random generator
RngPeriod == 2

\* number of calls in one run that change an instance: fit calls, and
\* constructions of a further regressor on the shared optimizer
MaxCalls == 2

----------------------------------------------------------------------------
(* Numbers *)

None == <<>>

NaN == <<"nan", 0>>

PInf == <<"inf", 0>>

NInf == <<"ninf", 0>>

Untracked == <<"real", 0>>

Num(n) == <<"int", n>>

\* 10^e for an integer e, in canonical form
TenTo(e) ==
    IF e < 0 THEN <<"pow", e>>
    ELSE IF e > 9 THEN Untracked
    ELSE <<"int", 10^e>>

IsPowerOfTen(n) == \E e \in 0..9 : n = 10^e

ExponentOf(n) == CHOOSE e \in 0..9 : n = 10^e

\* np.log10 of one number: -inf at 0 and NaN below 0, as numpy returns them
Log10(x) ==
    CASE x[1] = "int" ->
            IF x[2] < 0 THEN NaN
            ELSE IF x[2] = 0 THEN NInf
            ELSE IF IsPowerOfTen(x[2]) THEN Num(ExponentOf(x[2]))
            ELSE <<"log", x[2]>>
      [] x[1] = "pow" -> Num(x[2])
      [] x[1] = "inf" -> PInf
      [] x[1] = "ninf" -> NaN
      [] x[1] = "nan" -> NaN
      [] OTHER -> Untracked

\* 10 ** x of one number
Pow10(x) ==
    CASE x[1] = "int" -> TenTo(x[2])
      [] x[1] = "log" -> Num(x[2])
      [] x[1] = "inf" -> PInf
      [] x[1] = "ninf" -> Num(0)
      [] x[1] = "nan" -> NaN
      [] OTHER -> Untracked

IsFinite(x) == x[1] \notin {"inf", "ninf", "nan"}

IsInt(x) == x[1] = "int"

\* x < y for numbers: every comparison with NaN is false, and so is every
\* comparison with a number the model does not track
Less(x, y) ==
    /\ x[1] \notin {"nan", "real"}
    /\ y[1] \notin {"nan", "real"}
    /\ x # y
    /\ \/ x = NInf
       \/ y = PInf
       \/ x[1] = "int" /\ y[1] = "int" /\ x[2] < y[2]
       \/ x[1] = "int" /\ y[1] \in {"pow", "log"} /\ x[2] <= 0
       \/ x[1] = "pow" /\ y[1] = "int" /\ y[2] >= 1
       \/ x[1] = "pow" /\ y[1] = "pow" /\ x[2] < y[2]
       \/ x[1] = "pow" /\ y[1] = "log"
       \/ x[1] = "log" /\ y[1] = "log" /\ x[2] < y[2]
       \/ x[1] = "log" /\ y[1] = "int" /\ y[2] >= 1
                       /\ (y[2] > 9 \/ x[2] < 10^y[2])
       \/ x[1] = "int" /\ y[1] = "log" /\ x[2] \in 1..9 /\ 10^x[2] < y[2]

Log10Vec(v) == [c \in 1..Len(v) |-> Log10(v[c])]

Pow10Vec(v) == [c \in 1..Len(v) |-> Pow10(v[c])]

\* a one-entry vector broadcast to cols entries, as numpy assigns it to a row
Broadcast(v, cols) == IF Len(v) = 1 THEN [c \in 1..cols |-> v[1]] ELSE v

----------------------------------------------------------------------------
(* Arrays and the symbolic matrices computed from them *)

NoArray == [id |-> "None", shape |-> <<>>]

RECURSIVE Size(_)
\* np.size of an array of the given shape
Size(shape) == IF shape = <<>> THEN 1 ELSE Head(shape) * Size(Tail(shape))

\* np.atleast_2d applied to the shape of a 1-D or 2-D array
atleast_2d(shape) == IF Len(shape) = 1 THEN <<1, shape[1]>> ELSE shape

\* kernel.c(x, s, params): the kernel collaborator accepts two 2-D point sets
\* of one column count and one parameter per column plus the process variance
KernelAccepts(x, s, params) ==
    /\ Len(x.shape) = 2
    /\ Len(s.shape) = 2
    /\ x.shape[2] = s.shape[2]
    /\ Len(params) = s.shape[2] + 1

\* hyperparameters[:-1]
AllButLast(v) == SubSeq(v, 1, Len(v) - 1)

\* kernel.c(s_, s_, hyperparameters[:-1]) + eye(n) * hyperparameters[-1]**2
CovarianceMatrix(s_, hyperparameters) == <<"K", s_, hyperparameters>>

\* the lower Cholesky factor of K + 1e-10 * eye(n)
CholeskyFactor(K) == <<"cholesky", K>>

\* cho_solve((cc, True), y_)
FactorSolve(cc, y_) == <<"cho_solve", cc, y_>>

\* the factorization routines check their input for NaN and infinities
AllFinite(v) == \A c \in 1..Len(v) : IsFinite(v[c])

----------------------------------------------------------------------------
(* The values callers pass *)

\* [1, ..., 1, 0.1]: unit length scales and process variance, noise 0.1
UnitHyperparameters(cols) ==
    [c \in 1..cols |-> IF c = cols THEN TenTo(-1) ELSE Num(1)]

\* hyperparameter lists given to the constructor, for one and for two input
\* dimensions
ConstructorHyperparameters ==
    { UnitHyperparameters(3), UnitHyperparameters(4) }

\* hyperparameter lists given to fit (None: keep the current ones); the
\* argument is not validated, so a list with a zero entry is accepted too
FitHyperparameters ==
    { None, <<Num(10), Num(1), TenTo(-2)>>, <<Num(0), Num(1), TenTo(-1)>> }

\* bounds given to the constructor (None: defaults), in the natural scale
UserBounds ==
    <<  <<TenTo(-2), Num(100)>>, <<TenTo(-2), Num(100)>>, <<TenTo(-3), TenTo(-1)>>  >>

\* bounds the optimizer object was created with (None: unbounded)
OptimizerOwnBounds ==
    <<  <<TenTo(-1), Num(10)>>, <<TenTo(-1), Num(10)>>, <<TenTo(-4), TenTo(-2)>>  >>

\* training inputs: two points in one dimension, two points in two
\* dimensions, and a flat vector of two numbers
SampleInputs ==
    { [id |-> "X1", shape |-> <<2, 1>>],
      [id |-> "X2", shape |-> <<2, 2>>],
      [id |-> "Xflat", shape |-> <<2>>] }

\* training outputs: one output per point and two outputs per point
ValueInputs ==
    { [id |-> "Y1", shape |-> <<2>>],
      [id |-> "Y2", shape |-> <<2, 2>>] }

\* query points: two points in one dimension, two points in two dimensions,
\* and a flat vector (one point in two dimensions)
PointInputs ==
    { [id |-> "P2", shape |-> <<2, 1>>],
      [id |-> "P3", shape |-> <<2, 2>>],
      [id |-> "Pflat", shape |-> <<2>>] }

\* objective values an optimizer's result object reports in .fun
FunValues == { Num(0), Num(1), PInf, NInf, NaN }

\* values log_likelihood returns: finite, or +inf when the quadratic term
\* overflows
LikelihoodValues == { Num(0), Num(1), PInf }

\* the seed given as random_state
RandomStateInputs == { <<42>> }

----------------------------------------------------------------------------
(* GaussianProcessRegressor.__init__ *)

\* the bounds of a length-scale for every entry, the last included
UniformDefaultBounds(n) ==
    [c \in 1..n |-> <<TenTo(-3), TenTo(3)>>]

\* [[10**-3, 10**3]] * n with the last pair replaced by [10**-10, 10**-1]
DefaultBounds(n) ==
    [c \in 1..n |-> IF c = n THEN <<TenTo(-10), TenTo(-1)>>
                            ELSE <<TenTo(-3), TenTo(3)>>]

\* process_random_state: a seed becomes a generator seeded with it
process_random_state(random_state) ==
    IF random_state = None THEN None ELSE <<"RandomState", random_state[1]>>

\* the instance the constructor leaves, on the optimizer object opt
GaussianProcessRegressor(hyperparameters, opt, bounds, optimize, optimize_constraints, optimizations_number, normalize, random_state) ==
    [ hyperparameters |-> hyperparameters,
      bounds |-> IF bounds = None
                 THEN IF opt._bounds = None
                      THEN DefaultBounds(Len(hyperparameters))
                      ELSE opt._bounds
                 ELSE bounds,
      optimizations_number |-> optimizations_number,
      optimize |-> optimize,
      optimize_constraints |-> optimize_constraints,
      normalize |-> normalize,
      random_state |-> process_random_state(random_state),
      samples |-> NoArray,
      values |-> NoArray,
      sample_mean |-> None,
      sample_std |-> None,
      value_mean |-> None,
      value_std |-> None,
      K |-> None,
      cc |-> None,
      alpha_ |-> None,
      jac |-> FALSE ]

\* the locals of a fit between two optimizer restarts; empty outside a fit
NoFrame ==
    [ before |-> None, i__ |-> 0, starting_point |-> <<>>, minimizer |-> <<>>,
      fun_value |-> <<>>, s_ |-> NoArray, y_ |-> NoArray, nsamples |-> 0,
      initial_guesses |-> <<>>, callbacks |-> <<>> ]

\* the last call that changed the instance and how it ended: its arguments,
\* the name of the exception it raised ("" when it returned, "running" while
\* a fit is in its restart loop) and the source line that raised it, the
\* table of starting points a fit built and the initial guesses it handed to
\* the optimizer
Constructed(a) ==
    [ op |-> "__init__", raised |-> "", line |-> 0, args |-> a,
      initial_guesses |-> <<>>, starting_point |-> <<>> ]

\* the plain constructor call: hyperparameters for one input dimension, no
\* bounds, optimize enabled, no constraints object, the default
\* optimizations_number, no normalization, a seed
PlainConstructor ==
    <<UnitHyperparameters(3), None, TRUE, FALSE, 1, FALSE, <<42>>>>

\* the number of arguments in which the list a differs from the list plain
ArgumentsChanged(a, plain) ==
    Cardinality({i \in 1..Len(plain) : a[i] # plain[i]})

\* the constructor arguments callers pass: the plain call and the calls that
\* differ from it in one argument
ConstructorArguments ==
    { a \in ConstructorHyperparameters \X {None, UserBounds} \X BOOLEAN
             \X BOOLEAN \X {1} \X BOOLEAN \X RandomStateInputs :
        ArgumentsChanged(a, PlainConstructor) <= 1 }

\* GaussianProcessRegressor(*a) on the optimizer object opt
Construction(a, opt) ==
    GaussianProcessRegressor(a[1], opt, a[2], a[3], a[4], a[5], a[6], a[7])

Init ==
    /\ optimizer \in { [_bounds |-> b, constraints |-> None] :
                          b \in {None, OptimizerOwnBounds} }
    /\ calls = 0
    /\ \E a \in ConstructorArguments :
        /\ optimizer._bounds # None => a = PlainConstructor
        /\ gp = Construction(a, optimizer)
        /\ call = Constructed(a)
    /\ np_random = 0
    /\ pc = "idle"
    /\ frame = NoFrame
    /\ prediction = None
    /\ projection = None
    /\ reconstruction = None
    /\ manifold = None
    /\ manifold_point = None
    /\ process = None
    /\ selection = None
    /\ taylor = None
    /\ series = None
    /\ hermite = None

\* a further regressor is constructed on the same optimizer object
Construct ==
    /\ pc = "idle"
    /\ calls < MaxCalls
    /\ \E a \in ConstructorArguments :
        /\ gp' = Construction(a, optimizer)
        /\ call' = Constructed(a)
    /\ calls' = calls + 1
    /\ UNCHANGED <<optimizer, np_random, pc, frame, prediction>>
    /\ UNCHANGED not_gpr

----------------------------------------------------------------------------
(* GaussianProcessRegressor.log_likelihood *)

\* log_likelihood(p0, k_, s, y) given the numerical outcome of its
\* factorization: chol is "ok" or the exception cholesky raises, value the
\* number the closing expression evaluates to. The function reads its
\* arguments only.
log_likelihood(p0, s, y, chol, value) ==
    IF ~KernelAccepts(s, s, AllButLast(Pow10Vec(p0)))
    THEN [raised |-> "ValueError", value |-> NaN]
    ELSE IF ~AllFinite(Pow10Vec(p0))
    THEN [raised |-> "ValueError", value |-> NaN]
    ELSE IF chol # "ok"
    THEN [raised |-> "LinAlgError", value |-> NaN]
    ELSE [raised |-> "", value |-> value]

----------------------------------------------------------------------------
(* GaussianProcessRegressor.fit *)

\* np.random.uniform(low, high) for entry number u of the table drawn by a
\* call that finds the global generator in state g: a grid point of
\* [low, high]
UniformEntry(low, high, g, u) ==
    IF IsInt(low) /\ IsInt(high)
    THEN IF low[2] <= high[2]
         THEN Num(low[2] + ((g + u) % (high[2] - low[2] + 1)))
         ELSE Num(low[2] - ((g + u) % (low[2] - high[2] + 1)))
    ELSE Untracked

\* np.random.uniform(low=lb, high=ub, size=(n, cols))
UniformTable(lb, ub, n, cols, g) ==
    [i \in 1..n |->
        [c \in 1..cols |->
            UniformEntry(Broadcast(lb, cols)[c], Broadcast(ub, cols)[c],
                         g, (i - 1) * cols + c)]]

\* the global generator after one call of np.random.uniform
AdvanceGenerator(g) == (g + 1) % RngPeriod

\* lines 128-132: the arguments overwrite the instance
StoreArguments(self, samples, optimizations_number, hyperparameters) ==
    [self EXCEPT !.optimizations_number =
                     IF optimizations_number # None
                     THEN optimizations_number[1] ELSE @,
                 !.hyperparameters =
                     IF hyperparameters # None THEN hyperparameters ELSE @,
                 !.samples = samples]

\* line 136: int(np.size(values) / nsamples)
OutputDim(values, nsamples) == Size(values.shape) \div nsamples

\* line 138: np.array(values).reshape(nsamples, output_dim)
StoreValues(self, values) ==
    [self EXCEPT !.values =
        [id |-> values.id,
         shape |-> <<self.samples.shape[1],
                     OutputDim(values, self.samples.shape[1])>>]]

\* lines 141-143: the normalization statistics of the stored data
StoreStatistics(self) ==
    IF self.normalize
    THEN [self EXCEPT !.sample_mean = <<"mean", self.samples.id>>,
                      !.sample_std = <<"std", self.samples.id>>,
                      !.value_mean = <<"mean", self.values.id>>,
                      !.value_std = <<"std", self.values.id>>]
    ELSE self

\* (samples - sample_mean) / sample_std when normalizing, else samples
Standardized(self, array, mean, std) ==
    [id |-> array.id, shape |-> array.shape,
     scale |-> IF self.normalize THEN <<mean, std>> ELSE None]

\* lines 195-200 given the outcome chol of the factorization: the instance
\* left behind and the exception raised ("" when fit returns)
FinalFactorization(self, s_, y_, chol) ==
    IF ~KernelAccepts(s_, s_, AllButLast(self.hyperparameters))
    THEN [self |-> self, raised |-> "ValueError", line |-> 196]
    ELSE LET withK == [self EXCEPT !.K = CovarianceMatrix(s_, self.hyperparameters)]
         IN IF ~AllFinite(self.hyperparameters)
            THEN [self |-> withK, raised |-> "ValueError", line |-> 199]
            ELSE IF chol # "ok"
            THEN [self |-> withK, raised |-> "LinAlgError", line |-> 199]
            ELSE [self |-> [withK EXCEPT
                               !.cc = CholeskyFactor(withK.K),
                               !.alpha_ = FactorSolve(CholeskyFactor(withK.K), y_)],
                  raised |-> "", line |-> 0]

\* lines 156-163: the table of starting points, or the exception raised while
\* building it; drawn from np.random, the process-global generator
StartingPoints(self, input_dim, g) ==
    LET lb == [c \in 1..Len(self.bounds) |-> Log10(self.bounds[c][1])]
        ub == [c \in 1..Len(self.bounds) |-> Log10(self.bounds[c][2])]
        n == self.optimizations_number
        cols == input_dim + 2
        drawn == UniformTable(lb, ub, n, cols, g)
    IN IF Len(self.bounds) \notin {1, cols}
       THEN [raised |-> "ValueError", line |-> 162, table |-> <<>>, drew |-> FALSE]
       ELSE IF ~(AllFinite(lb) /\ AllFinite(ub))
       THEN [raised |-> "OverflowError", line |-> 162, table |-> <<>>, drew |-> FALSE]
       ELSE IF n = 0
       THEN [raised |-> "IndexError", line |-> 163, table |-> <<>>, drew |-> TRUE]
       ELSE IF Len(self.hyperparameters) \notin {1, cols}
       THEN [raised |-> "ValueError", line |-> 163, table |-> <<>>, drew |-> TRUE]
       ELSE [raised |-> "", line |-> 0,
             table |-> [drawn EXCEPT ![1] =
                          Broadcast(Log10Vec(self.hyperparameters), cols)],
             drew |-> TRUE]

\* lines 165-171: constraints or log-scale bounds are installed on the
\* optimizer object
PrepareOptimizer(opt, self) ==
    IF self.optimize_constraints
    THEN [opt EXCEPT !.constraints = <<"constraints", self.samples.id, self.values.id>>]
    ELSE [opt EXCEPT !._bounds =
            [c \in 1..Len(self.bounds) |->
                <<Log10(self.bounds[c][1]), Log10(self.bounds[c][2])>>]]

\* fit that keeps the factor-solve of the fit before while it optimizes
FitEntryKeepingCache(self, opt, g, samples, values, optimizations_number, hyperparameters, chol) ==
    LET stored == StoreArguments(self, samples, optimizations_number, hyperparameters)
        nsamples == samples.shape[1]
        input_dim == samples.shape[2]
        shaped == StoreStatistics(StoreValues(stored, values))
        s_ == Standardized(shaped, shaped.samples, shaped.sample_mean, shaped.sample_std)
        y_ == Standardized(shaped, shaped.values, shaped.value_mean, shaped.value_std)
        final == FinalFactorization(shaped, s_, y_, chol)
        invalidated == shaped
        start == StartingPoints(invalidated, input_dim, g)
        g1 == IF start.drew THEN AdvanceGenerator(g) ELSE g
        stop(s, e, l, gen) ==
            [self |-> s, optimizer |-> opt, np_random |-> gen, raised |-> e,
             line |-> l, running |-> FALSE, frame |-> NoFrame]
    IN IF Len(samples.shape) # 2
       THEN stop(stored, "ValueError", 135, g)
       ELSE IF nsamples * OutputDim(values, nsamples) # Size(values.shape)
       THEN stop(stored, "ValueError", 138, g)
       ELSE IF ~self.optimize
       THEN stop(final.self, final.raised, final.line, g)
       ELSE IF start.raised # ""
       THEN stop(invalidated, start.raised, start.line, g1)
       ELSE [self |-> invalidated,
             optimizer |-> PrepareOptimizer(opt, invalidated),
             np_random |-> g1,
             raised |-> "", line |-> 0,
             running |-> TRUE,
             frame |-> [before |-> <<self>>, i__ |-> 0,
                        starting_point |-> start.table,
                        minimizer |-> <<>>, fun_value |-> <<>>,
                        s_ |-> s_, y_ |-> y_, nsamples |-> nsamples,
                        initial_guesses |-> <<>>, callbacks |-> <<>>]]

\* fit from its first line to the first optimizer invocation (optimize
\* enabled) or to its end (optimize disabled): the instance, the optimizer
\* and the generator it leaves, the exception raised, and whether the
\* restart loop is entered (running) with which locals
fit_entry(self, opt, g, samples, values, optimizations_number, hyperparameters, chol) ==
    LET stored == StoreArguments(self, samples, optimizations_number, hyperparameters)
        nsamples == samples.shape[1]
        input_dim == samples.shape[2]
        shaped == StoreStatistics(StoreValues(stored, values))
        s_ == Standardized(shaped, shaped.samples, shaped.sample_mean, shaped.sample_std)
        y_ == Standardized(shaped, shaped.values, shaped.value_mean, shaped.value_std)
        final == FinalFactorization(shaped, s_, y_, chol)
        invalidated == [shaped EXCEPT !.alpha_ = None]
        start == StartingPoints(invalidated, input_dim, g)
        g1 == IF start.drew THEN AdvanceGenerator(g) ELSE g
        stop(s, e, l, gen) ==
            [self |-> s, optimizer |-> opt, np_random |-> gen, raised |-> e,
             line |-> l, running |-> FALSE, frame |-> NoFrame]
    IN IF Len(samples.shape) # 2
       THEN stop(stored, "ValueError", 135, g)
       ELSE IF nsamples * OutputDim(values, nsamples) # Size(values.shape)
       THEN stop(stored, "ValueError", 138, g)
       ELSE IF ~self.optimize
       THEN stop(final.self, final.raised, final.line, g)
       ELSE IF start.raised # ""
       THEN stop(invalidated, start.raised, start.line, g1)
       ELSE [self |-> invalidated,
             optimizer |-> PrepareOptimizer(opt, invalidated),
             np_random |-> g1,
             raised |-> "", line |-> 0,
             running |-> TRUE,
             frame |-> [before |-> <<self>>, i__ |-> 0,
                        starting_point |-> start.table,
                        minimizer |-> <<>>, fun_value |-> <<>>,
                        s_ |-> s_, y_ |-> y_, nsamples |-> nsamples,
                        initial_guesses |-> <<>>, callbacks |-> <<>>]]

\* min(fun_value) as Python computes it: the first value, replaced by each
\* later value that compares less
RECURSIVE PyMinFrom(_, _, _)
PyMinFrom(values, i, current) ==
    IF i > Len(values) THEN current
    ELSE PyMinFrom(values, i + 1,
                   IF Less(values[i], current) THEN values[i] ELSE current)

PyMin(values) == PyMinFrom(values, 2, values[1])

\* np.argmin(fun_value): the first NaN if there is one, else the first
\* occurrence of the least value (1-based here)
NpArgmin(values) ==
    IF \E i \in 1..Len(values) : values[i] = NaN
    THEN CHOOSE i \in 1..Len(values) :
            /\ values[i] = NaN
            /\ \A j \in 1..(i - 1) : values[j] # NaN
    ELSE CHOOSE i \in 1..Len(values) :
            /\ \A j \in 1..Len(values) : ~Less(values[j], values[i])
            /\ \A j \in 1..(i - 1) : values[j] # values[i]

\* lines 189-193: the hyperparameters selected from the recorded restarts,
\* or the exception of line 190
SelectHyperparameters(self, minimizer, fun_value) ==
    IF PyMin(fun_value) = PInf
    THEN [self |-> self, raised |-> "NotImplementedError", line |-> 190]
    ELSE [self |-> [self EXCEPT !.hyperparameters =
                        Pow10Vec(minimizer[NpArgmin(fun_value)])],
          raised |-> "", line |-> 0]

\* lines 189-200: selection and final factorization
fit_finish(self, minimizer, fun_value, s_, y_, chol) ==
    LET selected == SelectHyperparameters(self, minimizer, fun_value)
    IN IF selected.raised # ""
       THEN selected
       ELSE FinalFactorization(selected.self, s_, y_, chol)

----------------------------------------------------------------------------
(* GaussianProcessRegressor.predict *)

\* np.ndarray.flatten applied when the points have one column (lines 243, 254)
FlattenRule(x_shape, shape) ==
    IF x_shape[2] = 1 THEN <<Size(shape)>> ELSE shape

\* what predict(points, return_std, hyperparameters) computes on the
\* instance self, given the outcome chol of a factorization it may have to
\* compute: the exception raised, the value returned, and the factor and
\* factor-solve it used
PredictValue(self, points, return_std, hyperparameters, chol) ==
    LET x_shape == atleast_2d(points.shape)
        x_ == Standardized(self, [id |-> points.id, shape |-> x_shape],
                           self.sample_mean, self.sample_std)
        s_ == Standardized(self, self.samples, self.sample_mean, self.sample_std)
        y_ == Standardized(self, self.values, self.value_mean, self.value_std)
        h == IF hyperparameters = None THEN self.hyperparameters ELSE hyperparameters
        recompute == self.alpha_ = None
        cc == IF recompute THEN CholeskyFactor(CovarianceMatrix(s_, h)) ELSE self.cc
        alpha_ == IF recompute THEN FactorSolve(cc, y_) ELSE self.alpha_
        rescale == IF self.normalize THEN <<self.value_mean, self.value_std>> ELSE None
        p == x_shape[1]
        kout == alpha_[3].shape[2]
        y == [shape |-> FlattenRule(x_shape, <<p, kout>>),
              term |-> <<"posterior_mean", x_, s_, AllButLast(h), alpha_, rescale>>]
        mse == [shape |-> IF self.normalize /\ kout > p THEN <<kout>> ELSE <<p>>,
                term |-> <<"posterior_std", x_, s_, AllButLast(h), cc, rescale>>]
        raise(e) == [raised |-> e, ret |-> None, cc |-> None, alpha_ |-> None]
    IN IF self.normalize /\ self.sample_mean = None
       THEN raise("TypeError")
       ELSE IF self.samples = NoArray
       THEN raise("AttributeError")
       ELSE IF recompute /\ ~KernelAccepts(s_, s_, AllButLast(h))
       THEN raise("ValueError")
       ELSE IF recompute /\ (chol # "ok" \/ ~AllFinite(h))
       THEN raise("LinAlgError")
       ELSE IF recompute /\ self.values = NoArray
       THEN raise("ValueError")
       ELSE IF ~KernelAccepts(x_, s_, AllButLast(h))
       THEN raise("ValueError")
       ELSE IF alpha_[3].shape[1] # s_.shape[1]
       THEN raise("ValueError")
       ELSE IF ~return_std
       THEN [raised |-> "", ret |-> <<y>>, cc |-> cc, alpha_ |-> alpha_]
       ELSE IF self.normalize /\ kout # 1 /\ p # 1 /\ kout # p
       THEN raise("ValueError")
       ELSE [raised |-> "", ret |-> <<y, mse>>, cc |-> cc, alpha_ |-> alpha_]

\* predict keeps the factorization it computes in the instance
PredictCaching(self, points, return_std, hyperparameters, chol) ==
    LET r == PredictValue(self, points, return_std, hyperparameters, chol)
    IN [self |-> IF r.raised = ""
                 THEN [self EXCEPT !.cc = r.cc, !.alpha_ = r.alpha_]
                 ELSE self,
        raised |-> r.raised, ret |-> r.ret]

\* predict(points, return_std, hyperparameters): the instance it leaves, the
\* exception raised and the value returned; every name it assigns is a local
predict(self, points, return_std, hyperparameters, chol) ==
    LET r == PredictValue(self, points, return_std, hyperparameters, chol)
    IN [self |-> self, raised |-> r.raised, ret |-> r.ret]

----------------------------------------------------------------------------
(* The calls *)

\* outcomes of factorizing a matrix: the factor, or LinAlgError
CholeskyOutcomes == {"ok", "LinAlgError"}

\* numerical outcomes of one log_likelihood evaluation
LikelihoodOutcomes ==
    {[chol |-> "ok", value |-> v] : v \in LikelihoodValues}
        \cup {[chol |-> "LinAlgError", value |-> NaN]}

\* x moved into [low, high]
Clip(x, low, high) ==
    IF Less(x, low) THEN low ELSE IF Less(high, x) THEN high ELSE x

\* the point optimizer.optimize returns from an initial guess: the optimizer
\* moves the guess into the box it holds, when it holds one of that width,
\* and makes no further progress
ReturnedPoint(opt, guess) ==
    IF opt._bounds # None /\ Len(opt._bounds) = Len(guess)
    THEN [c \in 1..Len(guess) |->
            Clip(guess[c], opt._bounds[c][1], opt._bounds[c][2])]
    ELSE guess

\* the plain call fit(X1, Y1)
PlainFit ==
    <<[id |-> "X1", shape |-> <<2, 1>>], [id |-> "Y1", shape |-> <<2>>], None, None>>

\* the argument lists callers pass to fit: the plain call and the calls that
\* differ from it in one argument
FitCalls ==
    { a \in SampleInputs \X ValueInputs \X {None, <<MaxRestarts>>}
             \X FitHyperparameters :
        ArgumentsChanged(a, PlainFit) <= 1 }

\* fit(samples, values, optimizations_number, hyperparameters) is called
Fit ==
    /\ pc = "idle"
    /\ calls < MaxCalls
    /\ calls' = calls + 1
    /\ \E a \in FitCalls, chol \in CholeskyOutcomes :
        LET r == fit_entry(gp, optimizer, np_random, a[1], a[2], a[3], a[4], chol)
        IN /\ gp' = r.self
           /\ optimizer' = r.optimizer
           /\ np_random' = r.np_random
           /\ pc' = IF r.running THEN "optimizing" ELSE "idle"
           /\ frame' = r.frame
           /\ call' = IF r.running
                      THEN [op |-> "fit", raised |-> "running", line |-> 0,
                            args |-> a, initial_guesses |-> <<>>,
                            starting_point |-> r.frame.starting_point]
                      ELSE [op |-> "fit", raised |-> r.raised, line |-> r.line,
                            args |-> a, initial_guesses |-> <<>>,
                            starting_point |-> <<>>]
    /\ UNCHANGED prediction
    /\ UNCHANGED not_gpr

\* the instance, the locals and the record of the call after one pass of the
\* loop of lines 176-187: point is what the optimizer returned and value the
\* objective recorded for it, or the pass raised the exception at the line
RecordRestart(point, raised, line, value) ==
    /\ gp' = gp
    /\ UNCHANGED <<optimizer, np_random, prediction, calls>>
    /\ UNCHANGED not_gpr
    /\ IF raised # ""
       THEN /\ pc' = "idle"
            /\ frame' = NoFrame
            /\ call' = [call EXCEPT !.raised = raised, !.line = line,
                           !.initial_guesses =
                               Append(@, frame.starting_point[frame.i__ + 1])]
       ELSE /\ pc' = "optimizing"
            /\ frame' = [frame EXCEPT !.i__ = @ + 1,
                            !.minimizer = Append(@, point),
                            !.fun_value = Append(@, value),
                            !.initial_guesses =
                                Append(@, frame.starting_point[frame.i__ + 1]),
                            !.callbacks = <<>>]
            /\ call' = [call EXCEPT !.initial_guesses =
                           Append(@, frame.starting_point[frame.i__ + 1])]

\* one pass of the loop with an optimizer that returns an array (lines
\* 177-184): the objective is evaluated again at the returned point
FitRestartArray ==
    /\ pc = "optimizing"
    /\ frame.i__ < gp.optimizations_number
    /\ \E num \in LikelihoodOutcomes :
        LET p_ == ReturnedPoint(optimizer, frame.starting_point[frame.i__ + 1])
            ll == log_likelihood(p_, frame.s_, frame.y_, num.chol, num.value)
        IN RecordRestart(p_, ll.raised, 184, ll.value)

\* one pass of the loop with an optimizer that returns a result object
\* (lines 177-187): .x and .fun are recorded as reported
FitRestartResult ==
    /\ pc = "optimizing"
    /\ frame.i__ < gp.optimizations_number
    /\ \E fun \in FunValues :
        RecordRestart(ReturnedPoint(optimizer, frame.starting_point[frame.i__ + 1]),
                      "", 0, fun)

\* the objective raises inside optimizer.optimize (log_likelihood catches
\* nothing, lines 303-304) and the exception leaves fit
FitRestartRaises ==
    /\ pc = "optimizing"
    /\ frame.i__ < gp.optimizations_number
    /\ RecordRestart(<<>>, "LinAlgError", 177, NaN)

\* after the loop: selection and final factorization (lines 189-200)
FitFinish ==
    /\ pc = "optimizing"
    /\ frame.i__ = gp.optimizations_number
    /\ \E chol \in CholeskyOutcomes :
        LET r == fit_finish(gp, frame.minimizer, frame.fun_value,
                            frame.s_, frame.y_, chol)
        IN /\ gp' = r.self
           /\ call' = [call EXCEPT !.raised = r.raised, !.line = r.line]
    /\ pc' = "idle"
    /\ frame' = NoFrame
    /\ UNCHANGED <<optimizer, np_random, prediction, calls>>
    /\ UNCHANGED not_gpr

\* hyperparameter lists given to predict (None: the stored ones)
PredictHyperparameters == { None, <<Num(10), Num(1), TenTo(-2)>> }

\* the plain call predict(P2)
PlainPredict == <<[id |-> "P2", shape |-> <<2, 1>>], FALSE, None>>

\* the argument lists callers pass to predict: the plain call and the calls
\* that differ from it in one argument
PredictCalls ==
    { a \in PointInputs \X BOOLEAN \X PredictHyperparameters :
        ArgumentsChanged(a, PlainPredict) <= 1 }

\* predict(points, return_std, hyperparameters) is called between fits; the
\* caller holds what it returned or raised
Predict ==
    /\ pc = "idle"
    /\ \E a \in PredictCalls, chol \in CholeskyOutcomes :
        LET r == predict(gp, a[1], a[2], a[3], chol)
        IN /\ gp' = r.self
           /\ prediction' = <<[points |-> a[1], return_std |-> a[2],
                               hyperparameters |-> a[3], raised |-> r.raised,
                               ret |-> r.ret]>>
    /\ pc' = "returned"
    /\ UNCHANGED <<optimizer, np_random, frame, call, calls>>
    /\ UNCHANGED not_gpr

\* the caller of predict goes on
Resume ==
    /\ pc = "returned"
    /\ pc' = "idle"
    /\ prediction' = None
    /\ UNCHANGED <<gp, optimizer, np_random, frame, call, calls>>
    /\ UNCHANGED not_gpr

\* the constraint functions handed self.predict (line 166) call it from
\* inside optimizer.optimize, at the training points and with the candidate
\* hyperparameters
PredictDuringFit ==
    /\ pc = "optimizing"
    /\ gp.optimize_constraints
    /\ frame.i__ < gp.optimizations_number
    /\ \E chol \in CholeskyOutcomes :
        LET r == predict(gp, gp.samples, TRUE,
                         Pow10Vec(frame.starting_point[frame.i__ + 1]), chol)
        IN /\ gp' = r.self
           /\ frame' = [frame EXCEPT !.callbacks =
                           <<[raised |-> r.raised, ret |-> r.ret]>>]
    /\ UNCHANGED <<optimizer, np_random, pc, call, prediction, calls>>
    /\ UNCHANGED not_gpr

Next ==
    \/ Construct
    \/ Fit
    \/ FitRestartArray
    \/ FitRestartResult
    \/ FitRestartRaises
    \/ FitFinish
    \/ Predict
    \/ Resume
    \/ PredictDuringFit

Spec == Init /\ [][Next]_vars

----------------------------------------------------------------------------
(* Properties of GaussianProcessRegressor *)

\* the fields fit computes, the cached factor-solve alpha_ left out
FittedFields(self) ==
    [ samples |-> self.samples, values |-> self.values,
      sample_mean |-> self.sample_mean, sample_std |-> self.sample_std,
      value_mean |-> self.value_mean, value_std |-> self.value_std,
      hyperparameters |-> self.hyperparameters,
      optimizations_number |-> self.optimizations_number,
      K |-> self.K, cc |-> self.cc ]

\* this step is the last of a call to fit
FitEnds ==
    \/ pc = "idle" /\ calls' = calls + 1 /\ call'.op = "fit" /\ pc' = "idle"
    \/ pc = "optimizing" /\ pc' = "idle"

\* the instance as it was when the call to fit that is running, or that this
\* step makes, began
BeforeFit == IF pc = "optimizing" THEN frame.before[1] ELSE gp

\* C1: a call to fit that raises leaves samples, values, the normalization
\* means and stds, hyperparameters, optimizations_number, K and cc as they
\* were before the call; only alpha_ may differ.
C1_FailedFitKeepsFittedState ==
    [][FitEnds /\ call'.raised # ""
            => FittedFields(gp') = FittedFields(BeforeFit)]_vars

\* this step is a call to predict, from the caller or from a constraint
\* function during a fit
PredictStep ==
    \/ pc = "idle" /\ pc' = "returned"
    \/ pc = "optimizing" /\ pc' = "optimizing" /\ frame'.i__ = frame.i__
            /\ frame'.callbacks # <<>>

C3_FailedRestartDoesNotAbort ==
    (call.op = "fit" /\ call.raised = "LinAlgError") => call.line \notin {177, 184}

\* C4: when the objective value recorded for every restart is non-finite
\* (+inf, -inf or NaN) fit raises, and takes no hyperparameters from a
\* restart.
C4_AllNonFiniteRaises ==
    [][(/\ pc = "optimizing"
        /\ pc' = "idle"
        /\ frame.i__ = gp.optimizations_number
        /\ \A i \in 1..Len(frame.fun_value) : ~IsFinite(frame.fun_value[i]))
            => /\ call'.raised = "NotImplementedError"
               /\ gp'.hyperparameters = gp.hyperparameters]_vars

\* x <= y as floating-point numbers compare
LessEq(x, y) == x # NaN /\ y # NaN /\ (x = y \/ Less(x, y))

\* restart t recorded the lowest objective value, and is the earliest to
\* have recorded it
Lowest(fun_value, t) ==
    /\ \A j \in 1..Len(fun_value) : LessEq(fun_value[t], fun_value[j])
    /\ \A j \in 1..(t - 1) : fun_value[j] # fun_value[t]

\* C5: after a successful fit with optimize enabled the stored
\* hyperparameters are 10**x_t, x_t the minimizer of the earliest restart t
\* whose recorded objective value is the lowest of all restarts.
C5_LowestRestartSelected ==
    [][(/\ pc = "optimizing"
        /\ pc' = "idle"
        /\ frame.i__ = gp.optimizations_number
        /\ call'.raised = "")
            => \E t \in 1..Len(frame.fun_value) :
                  /\ Lowest(frame.fun_value, t)
                  /\ gp'.hyperparameters = Pow10Vec(frame.minimizer[t])]_vars

\* C6: the random starting points of restarts 2..N depend on the seed and
\* the inputs only: a call to fit repeated on the same regressor with the
\* same arguments draws the starting points the call before it drew.
C6_SeedDeterminesStartingPoints ==
    [][(/\ pc = "idle"
        /\ pc' = "optimizing"
        /\ call.op = "fit"
        /\ call'.args = call.args
        /\ Len(call.starting_point) = Len(call'.starting_point))
            => \A i \in 2..Len(call'.starting_point) :
                  call'.starting_point[i] = call.starting_point[i]]_vars

\* C7: a fit with optimize enabled invokes the optimizer exactly
\* optimizations_number times, once per row of the table of starting points
\* and in the order of the rows: a call to fit that built its table has, when
\* it ends, handed every row to the optimizer as an initial guess.
C7_OneInvocationPerRow ==
    (pc = "idle" /\ call.op = "fit" /\ call.starting_point # <<>>)
        => /\ Len(call.initial_guesses) = gp.optimizations_number
           /\ call.initial_guesses = call.starting_point

\* the shape the mean and the standard deviation are to have for p points
\* and k training outputs
ShapeForOutputs(p, k) == IF k = 1 THEN <<p>> ELSE <<p, k>>

\* C8: the mean predict returns has the shape (points, k) for k training
\* outputs and is flattened exactly when k = 1, whatever the input
\* dimension; the standard deviation follows the same rule.  The training
\* outputs are those of the successful fit the regressor was last given.
C8_ShapeFollowsOutputDimension ==
    (/\ pc = "returned"
     /\ prediction[1].raised = ""
     /\ call.op = "fit"
     /\ call.raised = "")
        => \A i \in 1..Len(prediction[1].ret) :
              prediction[1].ret[i].shape =
                  ShapeForOutputs(atleast_2d(prediction[1].points.shape)[1],
                                  gp.values.shape[2])

\* x > 0 for the numbers whose sign the model tracks
IsPositive(x) ==
    \/ x[1] = "int" /\ x[2] > 0
    \/ x[1] \in {"pow", "log", "inf"}

\* C9: in every state reached by constructions and calls to fit, every entry
\* of the stored hyperparameters is strictly positive.
C9_HyperparametersPositive ==
    pc = "idle" =>
        \A c \in 1..Len(gp.hyperparameters) : IsPositive(gp.hyperparameters[c])

\* the bounds [1e-3, 1e3] for every entry but the last and [1e-10, 1e-1] for
\* the last, one pair per entry of the hyperparameters
IsDefaultBounds(bounds, hyperparameters) ==
    /\ Len(bounds) = Len(hyperparameters)
    /\ \A c \in 1..Len(bounds) :
          bounds[c] = IF c = Len(bounds)
                      THEN <<TenTo(-10), TenTo(-1)>>
                      ELSE <<TenTo(-3), TenTo(3)>>

\* the regressor was constructed without a bounds argument and no call to fit
\* has been made on it since
ConstructedWithoutBounds == call.op = "__init__" /\ call.args[2] = None

OwnFactorSolve(s_, y_, h) ==
    FactorSolve(CholeskyFactor(CovarianceMatrix(s_, h)), y_)

\* C23: during a fit with optimize enabled alpha_ is None from before the
\* first optimizer invocation until the best hyperparameters are selected,
\* and a call to predict made in that window by a constraint function
\* computes its factorization from the hyperparameters passed to it, never
\* from the cc and alpha_ a previous fit left.
C23_NoCacheDuringOptimization ==
    pc = "optimizing" =>
        /\ gp.alpha_ = None
        /\ \A i \in 1..Len(frame.callbacks) :
              frame.callbacks[i].raised = "" =>
                  LET h == Pow10Vec(frame.starting_point[frame.i__ + 1])
                      ret == frame.callbacks[i].ret
                  IN /\ ret[1].term[5] = OwnFactorSolve(frame.s_, frame.y_, h)
                     /\ ret[2].term[5] = CholeskyFactor(CovarianceMatrix(frame.s_, h))

\* a constraint function called predict, and it returned, during the second
\* fit of a regressor that the first fit left with a cached factorization
C23_Witness ==
    /\ pc = "optimizing"
    /\ frame.before[1].alpha_ # None
    /\ frame.before[1].cc # None
    /\ frame.callbacks # <<>>
    /\ frame.callbacks[1].raised = ""

\* C24: in every reachable state in which alpha_ is present, K, cc and alpha_
\* are the ones computed from the stored samples, values and hyperparameters,
\* whatever calls to fit, successful or failed, were made.
C24_CacheBelongsToStoredData ==
    gp.alpha_ # None =>
        LET s_ == Standardized(gp, gp.samples, gp.sample_mean, gp.sample_std)
            y_ == Standardized(gp, gp.values, gp.value_mean, gp.value_std)
        IN /\ gp.K = CovarianceMatrix(s_, gp.hyperparameters)
           /\ gp.cc = CholeskyFactor(gp.K)
           /\ gp.alpha_ = FactorSolve(gp.cc, y_)

\* C28: a call to fit leaves the bounds of the regressor as they are, and a
\* regressor constructed without a bounds argument on an optimizer object
\* that the fit of an earlier regressor has used gets the bounds the earlier
\* regressor had.
C28_BoundsStayInNaturalScale ==
    [][/\ (call'.op = "fit" \/ calls' = calls) => gp'.bounds = gp.bounds
       /\ (/\ calls' = calls + 1
           /\ call'.op = "__init__"
           /\ call'.args[2] = None
           /\ call.op = "fit"
           /\ call.raised = ""
           /\ call.starting_point # <<>>)
            => gp'.bounds = gp.bounds]_vars

\* C29: every starting point a fit hands to the optimizer lies inside the box
\* of log10 bounds the same fit installed on the optimizer, the row seeded
\* from the current hyperparameters included.
C29_StartingPointsInsideBox ==
    (pc = "optimizing" /\ ~gp.optimize_constraints) =>
        \A i \in 1..Len(frame.starting_point) :
            \A c \in 1..Len(frame.starting_point[i]) :
                /\ frame.starting_point[i][c] # NaN
                /\ ~Less(frame.starting_point[i][c], optimizer._bounds[c][1])
                /\ ~Less(optimizer._bounds[c][2], frame.starting_point[i][c])

\* C30: on a fitted regressor, predict given hyperparameters h other than the
\* fitted ones returns the mean and the standard deviation of the model that
\* h defines on the stored training data: the factor and the factor-solve it
\* uses are computed from h.
C30_PredictUsesGivenHyperparameters ==
    (/\ pc = "returned"
     /\ prediction[1].raised = ""
     /\ prediction[1].hyperparameters # None
     /\ prediction[1].hyperparameters # gp.hyperparameters
     /\ call.op = "fit"
     /\ call.raised = "")
        => LET s_ == Standardized(gp, gp.samples, gp.sample_mean, gp.sample_std)
               y_ == Standardized(gp, gp.values, gp.value_mean, gp.value_std)
               h == prediction[1].hyperparameters
           IN \A i \in 1..Len(prediction[1].ret) :
                 prediction[1].ret[i].term[5] =
                     IF i = 1 THEN OwnFactorSolve(s_, y_, h)
                     ELSE CholeskyFactor(CovarianceMatrix(s_, h))

----------------------------------------------------------------------------
(* SvdProjection                                                           *)
(* (src/src/UQpy/dimension_reduction/grassman/manifold_projections/        *)
(* SvdProjection.py).  A matrix is the record of its row count, column     *)
(* count and rank; the arrays computed from matrices are records of a      *)
(* shape and a symbolic term.                                              *)

\* longest list of input matrices a caller passes
MaxPoints == 3

\* sys.maxsize, the 'maximum' sentinel: the largest integer of the model
maxsize == 2147483647

\* the matrices callers pass: square and rectangular, full rank and not
InputMatrices ==
    { [rows |-> 4, cols |-> 4, rank |-> 2],
      [rows |-> 4, cols |-> 4, rank |-> 3],
      [rows |-> 4, cols |-> 4, rank |-> 4],
      [rows |-> 4, cols |-> 3, rank |-> 3],
      [rows |-> 3, cols |-> 4, rank |-> 2],
      [rows |-> 3, cols |-> 3, rank |-> 3],
      [rows |-> 4, cols |-> 2, rank |-> 2] }

\* the lists of n matrices
RECURSIVE ListsOf(_, _)
ListsOf(S, n) ==
    IF n = 0 THEN { <<>> }
    ELSE { Append(l, x) : l \in ListsOf(S, n - 1), x \in S }

\* the lists given as input_points
InputPoints == UNION { ListsOf(InputMatrices, n) : n \in 0..MaxPoints }

\* the values given as p_planes_dimensions: the two sentinels and explicit
\* ranks
PlanesDimensions == {0, maxsize} \cup 1..5

\* max(np.shape(m)) and min(np.shape(m))
LargerDim(m) == IF m.rows >= m.cols THEN m.rows ELSE m.cols

SmallerDim(m) == IF m.rows <= m.cols THEN m.rows ELSE m.cols

\* list.count(x)
Count(list, x) == Cardinality({i \in 1..Len(list) : list[i] = x})

\* min(list) and max(list) of a list of integers, computed as Python does:
\* the first entry, replaced by each later entry that compares less (more)
RECURSIVE IntMinFrom(_, _, _)
IntMinFrom(list, i, current) ==
    IF i > Len(list) THEN current
    ELSE IntMinFrom(list, i + 1, IF list[i] < current THEN list[i] ELSE current)

RECURSIVE IntMaxFrom(_, _, _)
IntMaxFrom(list, i, current) ==
    IF i > Len(list) THEN current
    ELSE IntMaxFrom(list, i + 1, IF list[i] > current THEN list[i] ELSE current)

\* svd(matrix, rank) of UQpy.utilities.Utilities for the i-th input: the
\* first rank left singular vectors, the diagonal matrix of the first rank
\* singular values and the first rank right singular vectors
svd(matrix, i, rank) ==
    LET cut(n) == IF rank < n THEN rank ELSE n
    IN [ u |-> [shape |-> <<matrix.rows, cut(matrix.rows)>>, term |-> <<"u", i>>],
         s |-> [shape |-> <<cut(SmallerDim(matrix)), cut(SmallerDim(matrix))>>,
                term |-> <<"s", i>>],
         v |-> [shape |-> <<matrix.cols, cut(matrix.cols)>>, term |-> <<"v", i>>] ]

\* np.diag: the diagonal of a matrix, the diagonal matrix of a vector
diag(a) ==
    [ shape |-> IF Len(a.shape) = 2
                THEN << IF a.shape[1] <= a.shape[2] THEN a.shape[1] ELSE a.shape[2] >>
                ELSE <<a.shape[1], a.shape[1]>>,
      term |-> <<"diag", a.term>> ]

\* lines 45-54: the rank the constructor resolves, or the index of the first
\* input whose smaller dimension an explicit rank exceeds (0: none)
RECURSIVE FirstTooSmall(_, _, _)
FirstTooSmall(input_points, i, p_planes_dimensions) ==
    IF i > Len(input_points) THEN 0
    ELSE IF SmallerDim(input_points[i]) < p_planes_dimensions THEN i
    ELSE FirstTooSmall(input_points, i + 1, p_planes_dimensions)

ResolvedRank(ranks, p_planes_dimensions) ==
    IF p_planes_dimensions = 0 THEN IntMinFrom(ranks, 2, ranks[1])
    ELSE IF p_planes_dimensions = maxsize THEN IntMaxFrom(ranks, 2, ranks[1])
    ELSE p_planes_dimensions

\* the explicit rank is checked against each input only as its
\* decomposition is about to be computed
SvdProjectionCheckingLate(input_points, p_planes_dimensions) ==
    LET points_number == Len(input_points)
        n_left == [i \in 1..points_number |-> LargerDim(input_points[i])]
        n_right == [i \in 1..points_number |-> SmallerDim(input_points[i])]
        ranks == [i \in 1..points_number |-> input_points[i].rank]
        p == ResolvedRank(ranks, p_planes_dimensions)
        bad == FirstTooSmall(input_points, 1, p_planes_dimensions)
        raise(e, l, n) == [raised |-> e, line |-> l, svd_calls |-> n, self |-> None]
    IN IF points_number = 0
       THEN raise("IndexError", 32, 0)
       ELSE IF Count(n_left, n_left[1]) # points_number
               /\ Count(n_right, n_right[1]) # points_number
       THEN raise("TypeError", 36, 0)
       ELSE IF p_planes_dimensions \notin {0, maxsize} /\ bad # 0
       THEN raise("ValueError", 52, bad - 1)
       ELSE [ raised |-> "", line |-> 0, svd_calls |-> points_number,
              self |-> [ input_points |-> input_points,
                         psi |-> [i \in 1..points_number |-> svd(input_points[i], i, p).u],
                         sigma |-> [i \in 1..points_number |->
                                       diag(svd(input_points[i], i, p).s)],
                         phi |-> [i \in 1..points_number |-> svd(input_points[i], i, p).v],
                         n_psi |-> n_left[1],
                         n_phi |-> n_right[1],
                         p_planes_dimensions |-> p,
                         ranks |-> [i \in 1..points_number |-> p],
                         points_number |-> points_number,
                         max_rank |-> p ] ]

\* SvdProjection(input_points, p_planes_dimensions): the exception raised and
\* its line, the number of decompositions computed (line 65), and the object
\* constructed (None when the constructor raises)
SvdProjection(input_points, p_planes_dimensions) ==
    LET points_number == Len(input_points)
        n_left == [i \in 1..points_number |-> LargerDim(input_points[i])]
        n_right == [i \in 1..points_number |-> SmallerDim(input_points[i])]
        bool_left == Count(n_left, n_left[1]) # points_number
        bool_right == Count(n_right, n_right[1]) # points_number
        ranks == [i \in 1..points_number |-> input_points[i].rank]
        p == ResolvedRank(ranks, p_planes_dimensions)
        raise(e, l) == [raised |-> e, line |-> l, svd_calls |-> 0, self |-> None]
    IN IF points_number = 0
       THEN raise("IndexError", 32)
       ELSE IF bool_left /\ bool_right
       THEN raise("TypeError", 36)
       ELSE IF /\ p_planes_dimensions \notin {0, maxsize}
               /\ FirstTooSmall(input_points, 1, p_planes_dimensions) # 0
       THEN raise("ValueError", 52)
       ELSE [ raised |-> "", line |-> 0, svd_calls |-> points_number,
              self |-> [ input_points |-> input_points,
                         psi |-> [i \in 1..points_number |-> svd(input_points[i], i, p).u],
                         sigma |-> [i \in 1..points_number |->
                                       diag(svd(input_points[i], i, p).s)],
                         phi |-> [i \in 1..points_number |-> svd(input_points[i], i, p).v],
                         n_psi |-> n_left[1],
                         n_phi |-> n_right[1],
                         p_planes_dimensions |-> p,
                         ranks |-> [i \in 1..points_number |-> p],
                         points_number |-> points_number,
                         max_rank |-> p ] ]

\* the arrays of a list all have the shape of the first
SameShapes(points) ==
    \A i \in 1..Len(points) : points[i].shape = points[1].shape

\* Grassmann.karcher_mean: a point of the manifold of the given points
karcher_mean(points) ==
    [shape |-> points[1].shape, term |-> <<"karcher_mean", points>>]

\* Grassmann.log_map: one tangent vector at the reference per point
log_map(points, reference_point) ==
    [i \in 1..Len(points) |->
        [shape |-> points[i].shape,
         term |-> <<"log_map", points[i].term, reference_point.term>>]]

\* Grassmann.exp_map: one manifold point per tangent vector
exp_map(tangent_points, reference_point) ==
    [i \in 1..Len(tangent_points) |->
        [shape |-> tangent_points[i].shape,
         term |-> <<"exp_map", tangent_points[i].term, reference_point.term>>]]

\* interpolation.interpolate_sample: an array of the shape of the samples
interpolate_sample(interpolation, coordinates, samples, point, element_wise) ==
    [shape |-> samples[1].shape,
     term |-> <<"interpolate_sample", interpolation, coordinates,
                [i \in 1..Len(samples) |-> samples[i].term], point, element_wise>>]

\* a.T of a matrix
Transposed(a) == [shape |-> <<a.shape[2], a.shape[1]>>, term |-> <<"T", a.term>>]

\* np.dot(a, b) of two matrices; None when the shapes are not aligned
dot(a, b) ==
    IF Len(a.shape) = 2 /\ Len(b.shape) = 2 /\ a.shape[2] = b.shape[1]
    THEN [shape |-> <<a.shape[1], b.shape[2]>>, term |-> <<"dot", a.term, b.term>>]
    ELSE None

\* the parts reconstruct_solution computes from the object: the reference
\* points, the interpolated tangent vectors and singular values, and the
\* points mapped back to the manifold (lines 95-152)
ReconstructionParts(self, interpolation, coordinates, point, element_wise) ==
    LET ref_psi == karcher_mean(self.psi)
        ref_phi == karcher_mean(self.phi)
        sigma_m == [i \in 1..Len(self.sigma) |-> diag(self.sigma[i])]
        gamma_psi == log_map(self.psi, ref_psi)
        gamma_phi == log_map(self.phi, ref_phi)
        interp_psi == interpolate_sample(interpolation, coordinates, gamma_psi,
                                         point, element_wise)
        interp_phi == interpolate_sample(interpolation, coordinates, gamma_phi,
                                         point, element_wise)
    IN [ interp_sigma |-> interpolate_sample(interpolation, coordinates, sigma_m,
                                             point, element_wise),
         psi_tilde |-> exp_map(<<interp_psi>>, ref_psi)[1],
         phi_tilde |-> exp_map(<<interp_phi>>, ref_phi)[1] ]

\* the product is formed with the left basis on both sides
ReconstructLeftOnly(self, interpolation, coordinates, point, element_wise) ==
    LET parts == ReconstructionParts(self, interpolation, coordinates, point,
                                     element_wise)
        left == dot(parts.psi_tilde, parts.interp_sigma)
        interpolated == IF left = None THEN None
                        ELSE dot(left, Transposed(parts.psi_tilde))
    IN IF ~(SameShapes(self.psi) /\ SameShapes(self.phi))
       THEN [raised |-> "TypeError", ret |-> None]
       ELSE IF interpolated = None
       THEN [raised |-> "ValueError", ret |-> None]
       ELSE [raised |-> "", ret |-> interpolated]

\* reconstruct_solution(interpolation, coordinates, point, ...): the
\* exception raised and the matrix returned.  The Grassmann operations
\* reject points of differing shapes.
reconstruct_solution(self, interpolation, coordinates, point, element_wise) ==
    LET parts == ReconstructionParts(self, interpolation, coordinates, point,
                                     element_wise)
        left == dot(parts.psi_tilde, parts.interp_sigma)
        interpolated == IF left = None THEN None
                        ELSE dot(left, Transposed(parts.phi_tilde))
    IN IF ~(SameShapes(self.psi) /\ SameShapes(self.phi))
       THEN [raised |-> "TypeError", ret |-> None]
       ELSE IF interpolated = None
       THEN [raised |-> "ValueError", ret |-> None]
       ELSE [raised |-> "", ret |-> interpolated]

\* the variables of the regressor while no regressor is in use
NoRegressor ==
    /\ gp = None
    /\ optimizer = None
    /\ np_random = 0
    /\ pc = "idle"
    /\ frame = NoFrame
    /\ call = None
    /\ prediction = None
    /\ calls = 0

SvdInit ==
    /\ projection = None
    /\ reconstruction = None
    /\ NoRegressor
    /\ manifold = None
    /\ manifold_point = None
    /\ process = None
    /\ selection = None
    /\ taylor = None
    /\ series = None
    /\ hermite = None

\* SvdProjection(input_points, p_planes_dimensions) is called
SvdConstruct ==
    /\ projection = None
    /\ \E input_points \in InputPoints, p \in PlanesDimensions :
        LET r == SvdProjection(input_points, p)
        IN projection' = [ input_points |-> input_points,
                           p_planes_dimensions |-> p,
                           raised |-> r.raised, line |-> r.line,
                           svd_calls |-> r.svd_calls, self |-> r.self ]
    /\ UNCHANGED reconstruction
    /\ UNCHANGED not_svd

\* reconstruct_solution is called on the constructed object
SvdReconstruct ==
    /\ projection # None
    /\ projection.self # None
    /\ reconstruction = None
    /\ \E interpolation \in {"LinearInterpolation", "Kriging"},
          element_wise \in BOOLEAN :
        LET r == reconstruct_solution(projection.self, interpolation,
                                      "coordinates", "point", element_wise)
        IN reconstruction' = [ interpolation |-> interpolation,
                               element_wise |-> element_wise,
                               raised |-> r.raised, ret |-> r.ret ]
    /\ UNCHANGED projection
    /\ UNCHANGED not_svd

SvdNext ==
    \/ SvdConstruct
    \/ SvdReconstruct

SvdSpec == SvdInit /\ [][SvdNext]_vars

----------------------------------------------------------------------------
(* Properties of SvdProjection                                             *)

\* two matrices of the list differ in row count or in column count
DifferInShape(input_points) ==
    \E i, j \in 1..Len(input_points) :
        \/ input_points[i].rows # input_points[j].rows
        \/ input_points[i].cols # input_points[j].cols

\* C11: whenever two matrices of the input list differ in row count or in
\* column count, the constructor raises and no projection object is produced.
C11_ShapeMismatchRaises ==
    (projection # None /\ DifferInShape(projection.input_points))
        => (projection.raised # "" /\ projection.self = None)

\* the least and the greatest matrix rank of a list
LeastRank(input_points) ==
    CHOOSE r \in { input_points[i].rank : i \in 1..Len(input_points) } :
        \A i \in 1..Len(input_points) : r <= input_points[i].rank

GreatestRank(input_points) ==
    CHOOSE r \in { input_points[i].rank : i \in 1..Len(input_points) } :
        \A i \in 1..Len(input_points) : r >= input_points[i].rank

\* the construction went past the validation of the shapes (lines 24-39)
RankResolutionReached ==
    /\ projection # None
    /\ projection.raised \notin {"IndexError", "TypeError"}

\* C12: once the shapes are validated, the 'minimum' sentinel 0 resolves to
\* the least matrix rank of the inputs, the 'maximum' sentinel sys.maxsize to
\* the greatest, and any other value to itself; an explicit value raises the
\* rank error exactly when it exceeds the smaller dimension of some input,
\* an explicit 5 always raises on these inputs, and no decomposition has been
\* computed when the constructor raises.
C12_RankResolution ==
    /\ RankResolutionReached =>
        LET input_points == projection.input_points
            p == projection.p_planes_dimensions
            exceeds == \E i \in 1..Len(input_points) : p > SmallerDim(input_points[i])
            resolved == IF p = 0 THEN LeastRank(input_points)
                        ELSE IF p = maxsize THEN GreatestRank(input_points)
                        ELSE p
        IN /\ p \in {0, maxsize} => projection.raised = ""
           /\ p \notin {0, maxsize} => (projection.raised = "ValueError" <=> exceeds)
           /\ projection.raised = "" =>
                /\ projection.self.p_planes_dimensions = resolved
                /\ projection.self.max_rank = resolved
                /\ \A i \in 1..Len(input_points) : projection.self.ranks[i] = resolved
    /\ (projection # None /\ projection.p_planes_dimensions = 5) => projection.raised # ""
    /\ (projection # None /\ projection.raised # "") =>
            (projection.svd_calls = 0 /\ projection.self = None)

\* three matrices of ranks 2, 3 and 4 given with the 'minimum' sentinel
\* resolved to rank 2
C12_Witness ==
    /\ projection # None
    /\ projection.input_points = << [rows |-> 4, cols |-> 4, rank |-> 2],
                                    [rows |-> 4, cols |-> 4, rank |-> 3],
                                    [rows |-> 4, cols |-> 4, rank |-> 4] >>
    /\ projection.p_planes_dimensions = 0
    /\ projection.raised = ""
    /\ projection.self.p_planes_dimensions = 2
    /\ projection.svd_calls = 3

\* C13: reconstruct_solution returns the product U.Sigma.V^T of the
\* exp-mapped interpolated left basis (rows x p), the interpolated p x p
\* matrix of singular values (same interpolation, no exp map) and the
\* transposed exp-mapped interpolated right basis (cols x p); the result has
\* the shape of each input matrix.
C13_ReconstructionIsProduct ==
    (reconstruction # None /\ reconstruction.raised = "") =>
        LET self == projection.self
            p == self.p_planes_dimensions
            ret == reconstruction.ret
            U == ret.term[2][2]
            Sigma == ret.term[2][3]
            V == ret.term[3][2]
        IN /\ ret.term[1] = "dot" /\ ret.term[2][1] = "dot" /\ ret.term[3][1] = "T"
           /\ U[1] = "exp_map" /\ U[2][1] = "interpolate_sample"
           /\ U[2][2] = reconstruction.interpolation
           /\ U[2][4] = [i \in 1..self.points_number |->
                            <<"log_map", <<"u", i>>, U[3]>>]
           /\ U[3][1] = "karcher_mean" /\ U[3][2] = self.psi
           /\ V[1] = "exp_map" /\ V[2][1] = "interpolate_sample"
           /\ V[2][2] = reconstruction.interpolation
           /\ V[2][4] = [i \in 1..self.points_number |->
                            <<"log_map", <<"v", i>>, V[3]>>]
           /\ V[3][1] = "karcher_mean" /\ V[3][2] = self.phi
           /\ Sigma[1] = "interpolate_sample"
           /\ Sigma[2] = reconstruction.interpolation
           /\ Sigma[4] = [i \in 1..self.points_number |->
                            <<"diag", <<"diag", <<"s", i>>>>>>]
           /\ \A i \in 1..self.points_number :
                /\ self.psi[i].shape = <<self.input_points[i].rows, p>>
                /\ diag(self.sigma[i]).shape = <<p, p>>
                /\ self.phi[i].shape = <<self.input_points[i].cols, p>>
                /\ ret.shape = <<self.input_points[i].rows, self.input_points[i].cols>>

\* a reconstruction from two 4 x 3 matrices returned a 4 x 3 matrix
C13_Witness ==
    /\ reconstruction # None
    /\ reconstruction.raised = ""
    /\ projection.self.points_number = 2
    /\ reconstruction.ret.shape = <<4, 3>>

\* C27: after a successful construction, whatever the rank request, the
\* resolved p_planes_dimensions is at least 1 and at most the smaller
\* dimension of every input matrix.
C27_ResolvedRankWithinEveryInput ==
    (projection # None /\ projection.raised = "") =>
        \A i \in 1..Len(projection.input_points) :
            /\ 1 <= projection.self.p_planes_dimensions
            /\ projection.self.p_planes_dimensions
                   <= SmallerDim(projection.input_points[i])

----------------------------------------------------------------------------
(* ManifoldInterpolation                                                   *)
(* (src/src/UQpy/dimension_reduction/grassmann_manifold/                   *)
(* ManifoldInterpolation.py).  The work done for an interpolation is kept  *)
(* as the list of the collaborator calls made: surrogate fits and          *)
(* predictions, the invocation of a callable, the linear interpolant.      *)

\* longest list of manifold points a caller passes
MaxData == 3

\* the class Surrogate and the builtin callable, the two objects the
\* interpolation method is compared with by identity (lines 39, 71, 76)
Surrogate == [kind |-> "class", name |-> "Surrogate"]

callable == [kind |-> "builtin", name |-> "callable"]

\* the values given as interpolation_method: none, a surrogate object, a user
\* function, a string, and the two objects above
InterpolationMethods ==
    { None, Surrogate, callable,
      [kind |-> "surrogate", name |-> "Kriging()"],
      [kind |-> "function", name |-> "user_interpolation"],
      [kind |-> "str", name |-> "cubic"] }

\* the lists given as manifold_data: points of G(3,2), G(3,1) and G(4,2)
ManifoldData ==
    { [i \in 1..Len(l) |-> [shape |-> l[i], term |-> <<"point", i>>]] :
        l \in UNION { ListsOf({<<3, 2>>, <<3, 1>>, <<4, 2>>}, n) : n \in 1..MaxData } }

\* the terms of a list of arrays
Terms(points) == [i \in 1..Len(points) |-> points[i].term]

\* ManifoldInterpolation(interpolation_method, manifold_data, coordinates,
\* ...): the exception raised and its line, the work done and the object
\* constructed.  The Grassmann operations reject points of differing ambient
\* dimension; points that differ in the number of columns only are either
\* rejected too or mapped each to a tangent vector of its own shape.
ManifoldInterpolation(interpolation_method, manifold_data, coordinates, reconciled) ==
    LET mean == karcher_mean(manifold_data)
        tangent_points == log_map(manifold_data, mean)
        n_rows == tangent_points[1].shape[1]
        n_cols == tangent_points[1].shape[2]
        raise(e, l) == [raised |-> e, line |-> l, work |-> <<>>, self |-> None]
        object(coords, surrogates) ==
            [ raised |-> "", line |-> 0, work |-> <<>>,
              self |-> [ interpolation_method |-> interpolation_method,
                         mean |-> mean,
                         tangent_points |-> tangent_points,
                         coordinates |-> coords,
                         surrogates |-> surrogates ] ]
    IN IF \E i \in 1..Len(manifold_data) :
            manifold_data[i].shape[1] # manifold_data[1].shape[1]
       THEN raise("TypeError", 32)
       ELSE IF ~SameShapes(manifold_data) /\ ~reconciled
       THEN raise("TypeError", 32)
       ELSE IF interpolation_method = Surrogate
       THEN IF n_rows >= 1 /\ n_cols >= 1
            THEN raise("IndexError", 49)
            ELSE object(None, << <<>> >>)
       ELSE object(coordinates, None)

\* the shapes are compared after the interpolation has been carried out
InterpolateCheckingLast(self, point) ==
    LET shape_ref == self.tangent_points[1].shape
        differ == \E i \in 2..Len(self.tangent_points) :
                      self.tangent_points[i].shape # shape_ref
        build == <<"LinearNDInterpolator", self.coordinates, Terms(self.tangent_points)>>
        interp_point == [shape |-> shape_ref, term |-> <<"interp", build, point>>]
    IN IF self.interpolation_method = Surrogate
       THEN [raised |-> "IndexError", line |-> 74, work |-> <<>>, ret |-> None]
       ELSE IF self.interpolation_method = callable
       THEN [ raised |-> "TypeError", line |-> 77,
              work |-> << <<"call", callable, self.coordinates,
                            Terms(self.tangent_points), point>> >>,
              ret |-> None ]
       ELSE IF differ
       THEN [raised |-> "TypeError", line |-> 69, work |-> <<build>>, ret |-> None]
       ELSE [ raised |-> "", line |-> 0, work |-> <<build>>,
              ret |-> exp_map(<<interp_point>>, self.mean) ]

\* interpolate_manifold(point): the exception raised and its line, the work
\* done and the manifold points returned.  No surrogate is stored in
\* self.surrogates (line 49 raises before the first is), so line 74 raises;
\* the builtin callable takes one argument, so line 77 raises.
interpolate_manifold(self, point) ==
    LET shape_ref == self.tangent_points[1].shape
        n_rows == self.tangent_points[1].shape[1]
        n_cols == self.tangent_points[1].shape[2]
        build == <<"LinearNDInterpolator", self.coordinates, Terms(self.tangent_points)>>
        interp_point == [shape |-> shape_ref, term |-> <<"interp", build, point>>]
        zeros == [shape |-> shape_ref, term |-> <<"zeros">>]
    IN IF \E i \in 2..Len(self.tangent_points) :
            self.tangent_points[i].shape # shape_ref
       THEN [raised |-> "TypeError", line |-> 69, work |-> <<>>, ret |-> None]
       ELSE IF self.interpolation_method = Surrogate
       THEN IF n_rows >= 1 /\ n_cols >= 1
            THEN [raised |-> "IndexError", line |-> 74, work |-> <<>>, ret |-> None]
            ELSE [ raised |-> "", line |-> 0, work |-> <<>>,
                   ret |-> exp_map(<<zeros>>, self.mean) ]
       ELSE IF self.interpolation_method = callable
       THEN [ raised |-> "TypeError", line |-> 77,
              work |-> << <<"call", callable, self.coordinates,
                            Terms(self.tangent_points), point>> >>,
              ret |-> None ]
       ELSE [ raised |-> "", line |-> 0, work |-> <<build>>,
              ret |-> exp_map(<<interp_point>>, self.mean) ]

MiInit ==
    /\ manifold = None
    /\ manifold_point = None
    /\ NoRegressor
    /\ projection = None
    /\ reconstruction = None
    /\ process = None
    /\ selection = None
    /\ taylor = None
    /\ series = None
    /\ hermite = None

\* ManifoldInterpolation(interpolation_method, manifold_data, coordinates,
\* distance) is called
MiConstruct ==
    /\ manifold = None
    /\ \E interpolation_method \in InterpolationMethods,
          manifold_data \in ManifoldData, reconciled \in BOOLEAN :
        LET r == ManifoldInterpolation(interpolation_method, manifold_data,
                                       <<"coordinates">>, reconciled)
        IN manifold' = [ interpolation_method |-> interpolation_method,
                         manifold_data |-> manifold_data,
                         raised |-> r.raised, line |-> r.line,
                         work |-> r.work, self |-> r.self ]
    /\ UNCHANGED manifold_point
    /\ UNCHANGED not_mi

\* interpolate_manifold(point) is called on the constructed object
MiInterpolate ==
    /\ manifold # None
    /\ manifold.self # None
    /\ manifold_point = None
    /\ \E point \in {<<"point">>, <<"node">>} :
        LET r == interpolate_manifold(manifold.self, point)
        IN manifold_point' = [ point |-> point, raised |-> r.raised, line |-> r.line,
                             work |-> r.work, ret |-> r.ret ]
    /\ UNCHANGED manifold
    /\ UNCHANGED not_mi

MiNext ==
    \/ MiConstruct
    \/ MiInterpolate

MiSpec == MiInit /\ [][MiNext]_vars

----------------------------------------------------------------------------
(* Properties of ManifoldInterpolation                                     *)

\* the tangent vectors of the constructed object differ in shape
TangentShapesDiffer ==
    /\ manifold # None
    /\ manifold.self # None
    /\ ~SameShapes(manifold.self.tangent_points)

\* C14: when the tangent vectors do not all have the same shape,
\* interpolate_manifold raises and no interpolation work has been done by
\* then: no surrogate fitted or evaluated, no callable invoked, no linear
\* interpolant built, at construction or in the call.
C14_ShapeCheckPrecedesWork ==
    (TangentShapesDiffer /\ manifold_point # None) =>
        /\ manifold_point.raised = "TypeError"
        /\ manifold_point.line = 69
        /\ manifold_point.ret = None
        /\ manifold_point.work = <<>>
        /\ manifold.work = <<>>

\* interpolate_manifold was called on tangent vectors of shapes 3 x 2 and
\* 3 x 1 and raised
C14_Witness ==
    /\ TangentShapesDiffer
    /\ manifold_point # None
    /\ manifold_point.raised = "TypeError"
    /\ manifold.interpolation_method = [kind |-> "function", name |-> "user_interpolation"]

\* the entries (j, k) of the tangent matrices of the constructed object
TangentEntries ==
    (1..manifold.self.tangent_points[1].shape[1])
        \X (1..manifold.self.tangent_points[1].shape[2])

\* C15: constructed with a surrogate object, one copy of the surrogate is
\* fitted per tangent-matrix entry, and interpolate_manifold evaluates the
\* surrogate of each entry at the query point.
C15_SurrogatePerEntry ==
    (/\ manifold # None
     /\ manifold.interpolation_method = [kind |-> "surrogate", name |-> "Kriging()"]
     /\ manifold.raised = "")
        => /\ \A e \in TangentEntries :
                \E n \in 1..Len(manifold.work) : manifold.work[n] = <<"fit", e[1], e[2]>>
           /\ (manifold_point # None /\ manifold_point.raised = "") =>
                \A e \in TangentEntries :
                    \E n \in 1..Len(manifold_point.work) :
                        manifold_point.work[n] = <<"predict", e[1], e[2], manifold_point.point>>

\* C16: constructed with a user function, interpolate_manifold calls the
\* function with the coordinates, all the tangent vectors and the query point
\* and returns the exp map of its result; the linear interpolant is built
\* only when no interpolation method was given.
C16_CallableInvoked ==
    (manifold_point # None /\ manifold_point.raised = "") =>
        /\ manifold.interpolation_method = [kind |-> "function", name |-> "user_interpolation"]
            => /\ manifold_point.work =
                    << <<"call", manifold.interpolation_method, manifold.self.coordinates,
                         Terms(manifold.self.tangent_points), manifold_point.point>> >>
               /\ manifold_point.ret[1].term[1] = "exp_map"
               /\ manifold_point.ret[1].term[2][1] = "call"
        /\ (\E n \in 1..Len(manifold_point.work) :
                manifold_point.work[n][1] = "LinearNDInterpolator")
            => manifold.interpolation_method = None

\* C17: an interpolation method that is neither a surrogate nor a callable
\* nor None is rejected at construction or at the first interpolate_manifold
\* call, and no linear interpolant is built for it.
C17_UnsupportedMethodRejected ==
    (/\ manifold # None
     /\ manifold.interpolation_method = [kind |-> "str", name |-> "cubic"]
     /\ manifold_point # None)
        => /\ manifold_point.raised # "" \/ manifold.raised # ""
           /\ \A n \in 1..Len(manifold_point.work) :
                manifold_point.work[n][1] # "LinearNDInterpolator"

----------------------------------------------------------------------------
(* SpectralRepresentation and BispectralRepresentation                     *)
(* (src/src/UQpy/stochastic_process/).  An array is the record of the      *)
(* length of its first axis.                                               *)

\* most calls of run on one object, and the largest sample count of a call
MaxRuns == 3

MaxSamples == 2

\* the values given as nsamples (samples_number): None or a positive integer
SampleCounts == {None} \cup { Num(n) : n \in 1..MaxSamples }

\* np.concatenate((a, b), axis=0)
concatenate(a, b) == [axis0 |-> a.axis0 + b.axis0]

\* SpectralRepresentation.run(nsamples): the exception raised and its line,
\* and the object after the call.  The phase angles are drawn with
\* self.nsamples as the length of their first axis (lines 144 and 169), and
\* np.random.uniform rejects a size that holds None.
run(self, nsamples) ==
    LET phi == [axis0 |-> self.nsamples[2]]
        samples == [axis0 |-> phi.axis0]
    IN IF nsamples = None
       THEN [raised |-> "ValueError", line |-> 121, self |-> self]
       ELSE IF ~IsInt(nsamples)
       THEN [raised |-> "ValueError", line |-> 125, self |-> self]
       ELSE IF self.nsamples = None
       THEN [ raised |-> "TypeError",
              line |-> IF self.case = "uni" THEN 142 ELSE 167,
              self |-> self ]
       ELSE [ raised |-> "", line |-> 0,
              self |-> IF self.samples = None
                       THEN [self EXCEPT !.samples = samples, !.phi = phi]
                       ELSE [self EXCEPT !.samples = concatenate(self.samples, samples),
                                         !.phi = concatenate(self.phi, phi)] ]

\* BispectralRepresentation.run(samples_number), likewise (line 257)
bispectral_run(self, samples_number) ==
    LET phi == [axis0 |-> self.nsamples[2]]
        samples == [axis0 |-> phi.axis0]
    IN IF samples_number = None
       THEN [raised |-> "ValueError", line |-> 234, self |-> self]
       ELSE IF ~IsInt(samples_number)
       THEN [raised |-> "ValueError", line |-> 238, self |-> self]
       ELSE IF self.nsamples = None
       THEN [raised |-> "TypeError", line |-> 255, self |-> self]
       ELSE [ raised |-> "", line |-> 0,
              self |-> IF self.samples = None
                       THEN [self EXCEPT !.samples = samples, !.phi = phi]
                       ELSE [self EXCEPT !.samples = concatenate(self.samples, samples),
                                         !.phi = concatenate(self.phi, phi)] ]

\* SpectralRepresentation(nsamples, power_spectrum, ...) for a power spectrum
\* of a uni-variate or a multi-variate process: the object before the run of
\* line 101
SpectralRepresentation(nsamples, case) ==
    [ class |-> "SpectralRepresentation", nsamples |-> nsamples, case |-> case,
      samples |-> None, phi |-> None ]

\* BispectralRepresentation(samples_number, ...): the object before the run
\* of line 105; the case is "uni" for every power spectrum (lines 53, 97-99)
BispectralRepresentation(samples_number) ==
    [ class |-> "BispectralRepresentation", nsamples |-> samples_number,
      case |-> "uni", samples |-> None, phi |-> None ]

\* run of the class of the object
RunOf(self, n) ==
    IF self.class = "SpectralRepresentation" THEN run(self, n) ELSE bispectral_run(self, n)

SrmInit ==
    /\ process = None
    /\ NoRegressor
    /\ projection = None
    /\ reconstruction = None
    /\ manifold = None
    /\ manifold_point = None
    /\ selection = None
    /\ taylor = None
    /\ series = None
    /\ hermite = None

\* an object of one of the two classes is constructed; the constructor calls
\* run when a sample count is given
SrmConstruct ==
    /\ process = None
    /\ \E nsamples \in SampleCounts :
       \E object \in { SpectralRepresentation(nsamples, "uni"),
                       SpectralRepresentation(nsamples, "multi"),
                       BispectralRepresentation(nsamples) } :
        IF nsamples = None
        THEN process' = [ self |-> object, requested |-> <<>>, runs |-> 0,
                          raised |-> "", line |-> 0 ]
        ELSE LET r == RunOf(object, nsamples)
             IN process' = [ self |-> r.self,
                             requested |-> IF r.raised = "" THEN <<nsamples[2]>>
                                           ELSE <<>>,
                             runs |-> 0, raised |-> r.raised, line |-> r.line ]
    /\ UNCHANGED not_srm

\* the caller calls run
SrmRun ==
    /\ process # None
    /\ process.runs < MaxRuns
    /\ \E n \in SampleCounts \cup {<<"float", 1>>} :
        LET r == RunOf(process.self, n)
        IN process' = [ self |-> r.self,
                        requested |-> IF r.raised = ""
                                      THEN Append(process.requested, n[2])
                                      ELSE process.requested,
                        runs |-> process.runs + 1,
                        raised |-> r.raised, line |-> r.line ]
    /\ UNCHANGED not_srm

SrmNext ==
    \/ SrmConstruct
    \/ SrmRun

SrmSpec == SrmInit /\ [][SrmNext]_vars

----------------------------------------------------------------------------
(* Properties of the stochastic processes                                  *)

\* the sum of a list of integers
RECURSIVE SumOf(_)
SumOf(list) == IF list = <<>> THEN 0 ELSE list[1] + SumOf(Tail(list))

\* the last call of run was given an integer
RunGivenInteger ==
    /\ process # None
    /\ process.raised = "" \/ process.line \notin {121, 125, 234, 238}

\* C18: after run(n_1), ..., run(n_k), the run of the constructor included,
\* the first axis of samples and of phi both have length n_1 + ... + n_k, and
\* a run given an integer returns, whatever sample count the object was
\* constructed with.
C18_SamplesAccumulate ==
    process # None =>
        /\ RunGivenInteger => process.raised = ""
        /\ process.requested # <<>> =>
            /\ process.self.samples # None
            /\ process.self.samples.axis0 = SumOf(process.requested)
            /\ process.self.phi.axis0 = SumOf(process.requested)

----------------------------------------------------------------------------
(* InformationModelSelection                                               *)
(* (src/src/UQpy/inference/InformationModelSelection.py).  The maximum     *)
(* log-likelihood an estimator finds and the penalty of a model are        *)
(* values returned by collaborators, chosen per model.                     *)

\* most candidate models of a selection, and most calls of run and
\* sort_models on it
MaxModels == 2

MaxSelectionCalls == 3

\* the values ml_estimator.max_log_like takes after a run, and the values the
\* penalty of the criterion takes
LogLikes == {0 - 1, 0 - 2}

Penalties == {2, 4}

\* the orders of the indexes 1..n, as lists
IndexOrders(n) ==
    { f \in [1..n -> 1..n] : \A i, j \in 1..n : f[i] = f[j] => i = j }

\* [list[i] for i in idx]
Reordered(list, idx) == [i \in 1..Len(idx) |-> list[idx[i]]]

\* np.argsort of a list of numbers: the index lists that put the values in
\* non-decreasing order.  The default sort is not stable, so equal values
\* come in any order.
argsort(values) ==
    { idx \in IndexOrders(Len(values)) :
        \A i \in 1..(Len(values) - 1) : values[idx[i]][2] <= values[idx[i + 1]][2] }

\* _minimize_info_criterion with return_penalty=True
minimize_info_criterion(max_log_like, penalty_term) ==
    <<Num((0 - 2) * max_log_like + penalty_term), Num(penalty_term)>>

\* _compute_probabilities: entry i is exp(-delta_i / 2) over the sum of these
\* terms, kept as delta_i and the list of all deltas
compute_probabilities(criterion_values) ==
    LET values == [i \in 1..Len(criterion_values) |-> criterion_values[i][2]]
        delta == [i \in 1..Len(values) |-> values[i] - IntMinFrom(values, 2, values[1])]
    IN [i \in 1..Len(criterion_values) |-> [delta |-> delta[i], models |-> Len(delta)]]

\* InformationModelSelection(candidate_models, data, ...) with no
\* optimizations_number and no initial_guess: the object constructed
InformationModelSelection(candidate_models) ==
    [ models_number |-> Len(candidate_models),
      candidate_models |-> candidate_models,
      ml_estimators |-> [i \in 1..Len(candidate_models) |->
                            [inference_model |-> candidate_models[i].id,
                             max_log_like |-> None]],
      criterion_values |-> [i \in 1..Len(candidate_models) |-> None],
      penalty_terms |-> [i \in 1..Len(candidate_models) |-> None],
      probabilities |-> [i \in 1..Len(candidate_models) |-> None] ]

\* run(optimizations_number, initial_guess) when estimator i finds the
\* maximum log-likelihood found[i]: the object after the call
selection_run(self, found) ==
    LET estimators == [i \in 1..self.models_number |->
                          [self.ml_estimators[i] EXCEPT !.max_log_like = Num(found[i])]]
        results == [i \in 1..self.models_number |->
                       minimize_info_criterion(found[i], self.candidate_models[i].penalty)]
        criterion_values == [i \in 1..self.models_number |-> results[i][1]]
    IN [ self EXCEPT !.ml_estimators = estimators,
                     !.criterion_values = criterion_values,
                     !.penalty_terms = [i \in 1..self.models_number |-> results[i][2]],
                     !.probabilities = compute_probabilities(criterion_values) ]

\* the penalty terms are left in their places
SortKeepingPenalties(self, sort_idx) ==
    [ self EXCEPT !.candidate_models = Reordered(self.candidate_models, sort_idx),
                  !.ml_estimators = Reordered(self.ml_estimators, sort_idx),
                  !.criterion_values = Reordered(self.criterion_values, sort_idx),
                  !.probabilities = Reordered(self.probabilities, sort_idx) ]

\* sort_models() when np.argsort returns sort_idx: the object after the call
sort_models(self, sort_idx) ==
    [ self EXCEPT !.candidate_models = Reordered(self.candidate_models, sort_idx),
                  !.ml_estimators = Reordered(self.ml_estimators, sort_idx),
                  !.criterion_values = Reordered(self.criterion_values, sort_idx),
                  !.penalty_terms = Reordered(self.penalty_terms, sort_idx),
                  !.probabilities = Reordered(self.probabilities, sort_idx) ]

ImsInit ==
    /\ selection = None
    /\ NoRegressor
    /\ projection = None
    /\ reconstruction = None
    /\ manifold = None
    /\ manifold_point = None
    /\ process = None
    /\ taylor = None
    /\ series = None
    /\ hermite = None

\* a selection over one to MaxModels candidate models is constructed
ImsConstruct ==
    /\ selection = None
    /\ \E n \in 1..MaxModels : \E penalty \in [1..n -> Penalties] :
        selection' =
            [ self |-> InformationModelSelection(
                           [i \in 1..n |-> [id |-> i, penalty |-> penalty[i]]]),
              before |-> None, last |-> "", previous |-> "", calls |-> 0,
              raised |-> "" ]
    /\ UNCHANGED not_ims

\* run is called
ImsRun ==
    /\ selection # None
    /\ selection.calls < MaxSelectionCalls
    /\ \E found \in [1..selection.self.models_number -> LogLikes] :
        selection' = [ self |-> selection_run(selection.self, found),
                       before |-> selection.self,
                       last |-> "run", previous |-> selection.last,
                       calls |-> selection.calls + 1,
                       raised |-> "" ]
    /\ UNCHANGED not_ims

\* sort_models is called; before a run the criterion values are None, which
\* np.argsort cannot compare when there are two or more (line 176)
ImsSort ==
    /\ selection # None
    /\ selection.calls < MaxSelectionCalls
    /\ IF selection.self.criterion_values[1] = None
       THEN selection' = [ selection EXCEPT
                             !.before = selection.self,
                             !.last = "sort", !.previous = selection.last,
                             !.calls = @ + 1,
                             !.raised = IF selection.self.models_number >= 2
                                        THEN "TypeError" ELSE "" ]
       ELSE \E sort_idx \in argsort(selection.self.criterion_values) :
                selection' = [ self |-> sort_models(selection.self, sort_idx),
                               before |-> selection.self,
                               last |-> "sort", previous |-> selection.last,
                               calls |-> selection.calls + 1,
                               raised |-> "" ]
    /\ UNCHANGED not_ims

ImsNext ==
    \/ ImsConstruct
    \/ ImsRun
    \/ ImsSort

ImsSpec == ImsInit /\ [][ImsNext]_vars

----------------------------------------------------------------------------
(* Properties of InformationModelSelection                                 *)

\* the last call was sort_models on a selection that has been run
SortedAfterRun ==
    /\ selection # None
    /\ selection.last = "sort"
    /\ selection.self.criterion_values[1] # None

\* the last two calls were both sort_models
SortedTwice ==
    /\ SortedAfterRun
    /\ selection.previous = "sort"

\* the criterion values are non-decreasing and the probabilities
\* non-increasing along the lists, and the entries at each index belong to
\* one model: the five lists are the lists before the call under one
\* permutation
SortedTogether ==
    LET self == selection.self
        n == self.models_number
    IN /\ \A i \in 1..(n - 1) :
            /\ self.criterion_values[i][2] <= self.criterion_values[i + 1][2]
            /\ self.probabilities[i].delta <= self.probabilities[i + 1].delta
       /\ \E idx \in IndexOrders(n) :
            /\ self.candidate_models = Reordered(selection.before.candidate_models, idx)
            /\ self.ml_estimators = Reordered(selection.before.ml_estimators, idx)
            /\ self.criterion_values = Reordered(selection.before.criterion_values, idx)
            /\ self.penalty_terms = Reordered(selection.before.penalty_terms, idx)
            /\ self.probabilities = Reordered(selection.before.probabilities, idx)
       /\ \A i \in 1..n :
            /\ self.ml_estimators[i].inference_model = self.candidate_models[i].id
            /\ self.penalty_terms[i] = Num(self.candidate_models[i].penalty)
            /\ self.criterion_values[i] =
                  minimize_info_criterion(self.ml_estimators[i].max_log_like[2],
                                          self.candidate_models[i].penalty)[1]

\* C19: after run and sort_models the criterion values are non-decreasing,
\* the probabilities non-increasing and the five lists permuted by one
\* permutation; a second sort_models changes nothing.
C19_SortIsIdempotent ==
    /\ SortedAfterRun => SortedTogether
    /\ SortedTwice => selection.self = selection.before

\* C19, amended: after run and sort_models the criterion values are
\* non-decreasing, the probabilities non-increasing and the five lists
\* permuted by one permutation; a second sort_models leaves the criterion
\* values and the probabilities as they are, and leaves all five lists as
\* they are when no two models have the same criterion value.
C19_SortIsIdempotentUpToTies ==
    /\ SortedAfterRun => SortedTogether
    /\ SortedTwice =>
        /\ selection.self.criterion_values = selection.before.criterion_values
        /\ selection.self.probabilities = selection.before.probabilities
        /\ (\A i, j \in 1..selection.self.models_number :
                selection.self.criterion_values[i] = selection.self.criterion_values[j]
                    => i = j)
            => selection.self = selection.before

\* two models were run and sorted twice, and the first sort exchanged them
C19_Witness ==
    /\ SortedTwice
    /\ selection.self.models_number = 2
    /\ selection.self.candidate_models[1].id = 2
    /\ selection.self.criterion_values[1][2] < selection.self.criterion_values[2][2]

----------------------------------------------------------------------------
(* TaylorSeries                                                            *)
(* (src/src/UQpy/reliability/taylor_series/baseclass/TaylorSeries.py).     *)
(* A point is None or the record of the shape of a one-dimensional array;  *)
(* a distribution is the record of its class.  A point of the parameter    *)
(* space is kept as the multiples of df_step by which the entries of       *)
(* point_u were moved before the transformation, and a model value as the  *)
(* point it is the value of.                                               *)

\* largest dimension of a point, and longest list of distributions
MaxDimension == 3

MaxEntries == 2

\* the values given as point_u and as point_x
TaylorPoints == {None} \cup { [shape |-> <<d>>] : d \in 2..MaxDimension }

\* the objects given as distributions or as entries of the list: a
\* one-dimensional continuous distribution, joint independent distributions
\* of two and of three marginals, a distribution of another class, and a
\* string
DistributionEntries ==
    { [class |-> "DistributionContinuous1D"],
      [class |-> "JointIndependent", marginals |-> 2],
      [class |-> "JointIndependent", marginals |-> 3],
      [class |-> "DistributionND"],
      [class |-> "str"] }

\* the values given as distributions: None, one object, or a list of one to
\* MaxEntries objects
DistributionInputs ==
    {None} \cup { <<"one", e>> : e \in DistributionEntries }
           \cup { <<"list", l>> : l \in UNION { ListsOf(DistributionEntries, n) :
                                                   n \in 1..MaxEntries } }

\* the dimension is the length of the list (line 53)
TaylorSeriesCountingEntries(distributions, form_object, checked) ==
    LET raise(e, l) == [raised |-> e, line |-> l, self |-> None]
        entries == IF distributions = None THEN <<>>
                   ELSE IF distributions[1] = "one" THEN <<distributions[2]>>
                   ELSE distributions[2]
        known == {"DistributionContinuous1D", "JointIndependent"}
        object(dimension, nataf_object) ==
            [raised |-> "", line |-> 0,
             self |-> [dimension |-> dimension, nataf_object |-> nataf_object,
                       dist_object |-> distributions]]
    IN IF \/ distributions # None /\ distributions[1] = "one"
                /\ distributions[2].class = "str"
          \/ distributions # None /\ distributions[1] = "list"
                /\ distributions[2][checked].class = "str"
       THEN raise("BeartypeCallHintParamViolation", 12)
       ELSE IF form_object # None
       THEN object(None, None)
       ELSE IF distributions = None
       THEN raise("TypeError", 70)
       ELSE IF \E i \in 1..Len(entries) : entries[i].class \notin known
       THEN raise("TypeError", IF distributions[1] = "list" THEN 61 ELSE 70)
       ELSE object(Num(Len(entries)), <<"Nataf", distributions>>)

\* TaylorSeries(distributions, form_object=form_object): the exception
\* raised and its line, and the object constructed.  The decorator checks
\* the type of distributions, and of a list the one entry numbered checked;
\* without a form_object the dimension is counted (lines 51-70) and the Nataf
\* transformation of the distributions is constructed (lines 72-73).  An
\* attribute that is not assigned is None.
TaylorSeries(distributions, form_object, checked) ==
    LET raise(e, l) == [raised |-> e, line |-> l, self |-> None]
        entries == IF distributions = None THEN <<>>
                   ELSE IF distributions[1] = "one" THEN <<distributions[2]>>
                   ELSE distributions[2]
        known == {"DistributionContinuous1D", "JointIndependent"}
        added == [i \in 1..Len(entries) |->
                     IF entries[i].class = "JointIndependent"
                     THEN entries[i].marginals ELSE 1]
        object(dimension, nataf_object) ==
            [raised |-> "", line |-> 0,
             self |-> [dimension |-> dimension, nataf_object |-> nataf_object,
                       dist_object |-> distributions]]
    IN IF \/ distributions # None /\ distributions[1] = "one"
                /\ distributions[2].class = "str"
          \/ distributions # None /\ distributions[1] = "list"
                /\ distributions[2][checked].class = "str"
       THEN raise("BeartypeCallHintParamViolation", 12)
       ELSE IF form_object # None
       THEN object(None, None)
       ELSE IF distributions = None
       THEN raise("TypeError", 70)
       ELSE IF \E i \in 1..Len(entries) : entries[i].class \notin known
       THEN raise("TypeError", IF distributions[1] = "list" THEN 61 ELSE 70)
       ELSE object(Num(SumOf(added)), <<"Nataf", distributions>>)

\* nataf_object.samples_x after the point_u whose entry ii was moved by si
\* steps and whose entry jj by sj steps was correlated and transformed
\* (lines 131-133, 138-146); entry 0 is no entry
samples_x(dimension, ii, si, jj, sj) ==
    <<"x", [c \in 1..dimension |->
               (IF c = ii THEN si ELSE 0) + (IF c = jj THEN sj ELSE 0)]>>

\* runmodel_object.qoi_list after _run(samples, append_samples=False): the
\* model values at the samples, in their order
qoi_list(samples) == [k \in 1..Len(samples) |-> <<"q", samples[k]>>]

\* list(itertools.combinations(range(dimension), 2)), counted from 1
combinations(dimension) ==
    LET pairs == { p \in (1..dimension) \X (1..dimension) : p[1] < p[2] }
        before(p) == { r \in pairs : r[1] < p[1] \/ (r[1] = p[1] /\ r[2] < p[2]) }
    IN [k \in 1..Cardinality(pairs) |->
           CHOOSE p \in pairs : Cardinality(before(p)) = k - 1]

\* forward differences from the value at the point itself
GradientForward(y1, dimension) ==
    <<"ndarray",
      [ shape |-> <<dimension>>,
        entries |-> [jj \in 1..dimension |->
                        [plus |-> y1[2 * jj], minus |-> y1[1], over |-> "2*df_step"]] ]>>

\* lines 170-175: entry jj is (qoi_plus - qoi_minus) / (2 * df_step).  An
\* array returned is the tag "ndarray" with the record of its shape and its
\* entries.
gradient(y1, dimension) ==
    <<"ndarray",
      [ shape |-> <<dimension>>,
        entries |-> [jj \in 1..dimension |->
                        [plus |-> y1[2 * jj], minus |-> y1[2 * jj + 1],
                         over |-> "2*df_step"]] ]>>

\* derivatives(point_u, runmodel_object, nataf_object, order, point_x,
\* point_qoi, df_step): the exception raised and its line, the points
\* transformed to the standard normal space, the number of samples the model
\* is first run on, the batches of samples given to the model, and the value
\* returned.  Reading an attribute of None raises AttributeError.  A second
\* derivative (minus - 2 * centre + plus) / df_step**2 is kept as its three
\* values, a mixed derivative (qoi_0 + qoi_3 - qoi_1 - qoi_2) /
\* (4 * df_step**2) as the values it adds and the values it subtracts.
derivatives(point_u, nataf_object, order, point_x, point_qoi) ==
    LET raise(e, l) == [ raised |-> e, line |-> l, to_standard_normal |-> <<>>,
                         evaluated |-> 0, batches |-> <<>>, ret |-> None ]
        first_samples ==
            IF point_x # None
            THEN IF order = "first" \/ (order = "second" /\ point_qoi = None)
                 THEN 1 ELSE 0
            ELSE 1
        dimension == point_u.shape[1]
        x_0 == IF point_x # None THEN <<"reshape", point_x>>
               ELSE samples_x(dimension, 0, 0, 0, 0)
        moved == [k \in 1..(2 * dimension) |->
                     samples_x(dimension, (k + 1) \div 2,
                               IF k % 2 = 1 THEN 1 ELSE 0 - 1, 0, 0)]
        array_of_samples == IF first_samples = 1 THEN <<x_0>> \o moved ELSE moved
        y1 == qoi_list(array_of_samples)
        qoi == IF point_qoi = None THEN y1[1] ELSE point_qoi
        output_list == IF point_qoi = None THEN y1 ELSE <<point_qoi>> \o y1
        d2y_dj == [jj \in 1..dimension |->
                      [minus |-> output_list[2 * jj + 1], centre |-> qoi,
                       plus |-> output_list[2 * jj]]]
        pairs == combinations(dimension)
        array_of_mixed_points ==
            [k \in 1..(4 * Len(pairs)) |->
                LET i == pairs[(k + 3) \div 4]
                    which == (k - 1) % 4
                IN samples_x(dimension,
                             i[1], IF which \in {0, 1} THEN 1 ELSE 0 - 1,
                             i[2], IF which \in {0, 2} THEN 1 ELSE 0 - 1)]
        mixed == qoi_list(array_of_mixed_points)
        d2y_dij == [j \in 1..Len(pairs) |->
                       [adds |-> <<mixed[4 * j - 3], mixed[4 * j]>>,
                        subtracts |-> <<mixed[4 * j - 2], mixed[4 * j - 1]>>]]
        hessian ==
            <<"ndarray",
              [ shape |-> <<dimension, dimension>>,
                entries |-> [a \in 1..dimension |-> [b \in 1..dimension |->
                    IF a = b THEN d2y_dj[a]
                    ELSE d2y_dij[CHOOSE j \in 1..Len(pairs) :
                                    pairs[j] = IF a < b THEN <<a, b>> ELSE <<b, a>>]]] ]>>
    IN IF point_u = None /\ point_x = None
       THEN raise("TypeError", 122)
       ELSE IF point_x = None /\ nataf_object = None
       THEN raise("AttributeError", 131)
       ELSE IF point_u = None
       THEN raise("AttributeError", 137)
       ELSE IF nataf_object = None
       THEN raise("AttributeError", 141)
       ELSE [ raised |-> "", line |-> 0, to_standard_normal |-> <<>>,
              evaluated |-> first_samples + 2 * dimension,
              batches |-> IF order = "second"
                          THEN <<array_of_samples, array_of_mixed_points>>
                          ELSE <<array_of_samples>>,
              ret |-> IF order = "first"
                      THEN <<gradient(y1, dimension), y1[1], array_of_samples>>
                      ELSE IF order = "second"
                      THEN hessian
                      ELSE None ]

TsInit ==
    /\ taylor = None
    /\ series = None
    /\ hermite = None
    /\ NoRegressor
    /\ projection = None
    /\ reconstruction = None
    /\ manifold = None
    /\ manifold_point = None
    /\ process = None
    /\ selection = None

\* TaylorSeries(distributions, form_object=form_object) is called
TsConstruct ==
    /\ series = None
    /\ \E distributions \in DistributionInputs, form_object \in {None, <<"FORM">>} :
       \E checked \in IF distributions # None /\ distributions[1] = "list"
                      THEN 1..Len(distributions[2]) ELSE {1} :
        LET r == TaylorSeries(distributions, form_object, checked)
        IN series' = [ distributions |-> distributions, form_object |-> form_object,
                       raised |-> r.raised, line |-> r.line, self |-> r.self ]
    /\ UNCHANGED taylor
    /\ UNCHANGED not_ts

\* TaylorSeries.derivatives is called; the point_qoi given is None, some
\* number, or the value of the model at point_u
TsDerivatives ==
    /\ taylor = None
    /\ \E point_u \in TaylorPoints, point_x \in TaylorPoints,
          order \in {"first", "second", "mixed"},
          nataf_object \in {None, <<"Nataf">>} :
       \E point_qoi \in {None, <<"qoi">>} \cup
                        (IF point_u = None THEN {}
                         ELSE {<<"q", samples_x(point_u.shape[1], 0, 0, 0, 0)>>}) :
        LET r == derivatives(point_u, nataf_object, order, point_x, point_qoi)
        IN taylor' = [ point_u |-> point_u, point_x |-> point_x, order |-> order,
                       point_qoi |-> point_qoi, nataf_object |-> nataf_object,
                       raised |-> r.raised, line |-> r.line,
                       to_standard_normal |-> r.to_standard_normal,
                       evaluated |-> r.evaluated, batches |-> r.batches,
                       ret |-> r.ret ]
    /\ UNCHANGED series
    /\ UNCHANGED not_ts

TsNext ==
    \/ TsConstruct
    \/ TsDerivatives

TsSpec == TsInit /\ [][TsNext]_vars

----------------------------------------------------------------------------
(* Properties of TaylorSeries.derivatives                                  *)

\* C20: derivatives raises TypeError when point_u and point_x are both None;
\* given a Nataf object and one of the two points alone it returns the
\* derivatives of order 'first' or 'second', and a point_x given alone is
\* transformed to the standard normal space.
C20_EitherPointAccepted ==
    taylor # None =>
        /\ (taylor.point_u = None /\ taylor.point_x = None) => taylor.raised = "TypeError"
        /\ (/\ (taylor.point_u = None) # (taylor.point_x = None)
            /\ taylor.nataf_object # None
            /\ taylor.order \in {"first", "second"})
            => (taylor.raised = "" /\ taylor.ret # None)
        /\ (taylor.point_u = None /\ taylor.point_x # None /\ taylor.nataf_object # None)
            => taylor.to_standard_normal = <<taylor.point_x>>

\* the entries supplied as distributions: the entries of a list, the object
\* given alone, or None itself
SuppliedEntries ==
    IF series.distributions = None THEN <<None>>
    ELSE IF series.distributions[1] = "one" THEN <<series.distributions[2]>>
    ELSE series.distributions[2]

\* C21: constructed without a form_object, the dimension is the number of
\* one-dimensional continuous distributions plus the number of marginals of
\* every JointIndependent entry, for one distribution and for a list; the
\* constructor raises when a supplied entry is neither.
C21_DimensionCountsMarginals ==
    (series # None /\ series.form_object = None) =>
        LET entries == SuppliedEntries
            continuous == { i \in 1..Len(entries) :
                              /\ entries[i] # None
                              /\ entries[i].class = "DistributionContinuous1D" }
            joint == { i \in 1..Len(entries) :
                         /\ entries[i] # None
                         /\ entries[i].class = "JointIndependent" }
            marginals == [i \in 1..Len(entries) |->
                             IF i \in joint THEN entries[i].marginals ELSE 0]
        IN IF continuous \cup joint = 1..Len(entries)
           THEN /\ series.raised = ""
                /\ series.self.dimension = Num(Cardinality(continuous) + SumOf(marginals))
           ELSE /\ series.raised # ""
                /\ series.self = None

\* a list of a one-dimensional distribution and a JointIndependent of two
\* marginals gave the dimension 3
C21_Witness ==
    /\ series # None
    /\ series.form_object = None
    /\ series.distributions = <<"list", << [class |-> "DistributionContinuous1D"],
                                           [class |-> "JointIndependent", marginals |-> 2] >> >>
    /\ series.raised = ""
    /\ series.self.dimension = Num(3)

\* derivatives returned for a point_u; the point the model is evaluated at
\* for point_u itself is the point_x given, or the transformed point_u
ValueAtPoint ==
    <<"q", IF taylor.point_x # None THEN <<"reshape", taylor.point_x>>
           ELSE samples_x(taylor.point_u.shape[1], 0, 0, 0, 0)>>

\* C25: with order 'first' and a point_u of dimension d, derivatives gives
\* the model one batch of 2d + 1 points, x(u), x(u + h e_1), x(u - h e_1),
\* ..., x(u + h e_d), x(u - h e_d), and returns the gradient whose entry j is
\* (q(u + h e_j) - q(u - h e_j)) / (2h), the model value at u and the batch.
C25_FirstOrderCentralDifferences ==
    (taylor # None /\ taylor.raised = "" /\ taylor.order = "first") =>
        LET d == taylor.point_u.shape[1]
            batch == [k \in 1..(2 * d + 1) |->
                         IF k = 1 THEN ValueAtPoint[2]
                         ELSE samples_x(d, k \div 2,
                                        IF k % 2 = 0 THEN 1 ELSE 0 - 1, 0, 0)]
        IN /\ taylor.batches = <<batch>>
           /\ taylor.ret[1][2].shape = <<d>>
           /\ \A j \in 1..d :
                 taylor.ret[1][2].entries[j] =
                     [plus |-> <<"q", samples_x(d, j, 1, 0, 0)>>,
                      minus |-> <<"q", samples_x(d, j, 0 - 1, 0, 0)>>,
                      over |-> "2*df_step"]
           /\ taylor.ret[2] = ValueAtPoint
           /\ taylor.ret[3] = batch

\* the gradient at a point_u of dimension 3 was returned, point_u given alone
C25_Witness ==
    /\ taylor # None
    /\ taylor.raised = ""
    /\ taylor.order = "first"
    /\ taylor.point_x = None
    /\ taylor.point_u.shape = <<3>>
    /\ Len(taylor.batches[1]) = 7
    /\ Len(taylor.ret[1][2].entries) = 3

\* the Hessian of C26 for the value q0 taken as q(u)
ExpectedHessian(d, q0) ==
    [a \in 1..d |-> [b \in 1..d |->
        LET i == IF a < b THEN a ELSE b
            j == IF a < b THEN b ELSE a
        IN IF a = b
           THEN [minus |-> <<"q", samples_x(d, a, 0 - 1, 0, 0)>>, centre |-> q0,
                 plus |-> <<"q", samples_x(d, a, 1, 0, 0)>>]
           ELSE [adds |-> << <<"q", samples_x(d, i, 1, j, 1)>>,
                             <<"q", samples_x(d, i, 0 - 1, j, 0 - 1)>> >>,
                 subtracts |-> << <<"q", samples_x(d, i, 1, j, 0 - 1)>>,
                                  <<"q", samples_x(d, i, 0 - 1, j, 1)>> >>]]]

\* C26: with order 'second' and d >= 2, derivatives returns the symmetric
\* d x d Hessian whose diagonal entry j is (q(u - h e_j) - 2 q(u) +
\* q(u + h e_j)) / h^2 and whose entry (i, j) is (q(++) + q(--) - q(+-) -
\* q(-+)) / (4 h^2), q(u) being point_qoi when it is given and the model
\* value at u otherwise; given the model value at u as point_qoi the Hessian
\* is the one returned without point_qoi.
C26_SecondOrderHessian ==
    (taylor # None /\ taylor.raised = "" /\ taylor.order = "second") =>
        LET d == taylor.point_u.shape[1]
            q0 == IF taylor.point_qoi # None THEN taylor.point_qoi ELSE ValueAtPoint
        IN /\ taylor.ret[2].shape = <<d, d>>
           /\ \A a, b \in 1..d : taylor.ret[2].entries[a][b] = taylor.ret[2].entries[b][a]
           /\ taylor.ret[2].entries = ExpectedHessian(d, q0)
           /\ taylor.point_qoi = ValueAtPoint =>
                 taylor.ret = derivatives(taylor.point_u, taylor.nataf_object,
                                          "second", taylor.point_x, None).ret

----------------------------------------------------------------------------
(* Hermite polynomials                                                     *)
(* (src/src/UQpy/surrogates/polynomial_chaos/polynomials/Hermite.py and    *)
(* baseclass/Polynomials.py).  A sample array is the record of its shape,  *)
(* a polynomial the record of its degree.                                  *)

\* largest degree a caller passes, and most samples given to get_polys
MaxDegree == 5

MaxRows == 5

\* the normal distributions given to the constructor: the standard one, a
\* shifted one and a scaled one
HermiteDistributions ==
    { [class |-> "Normal", loc |-> 0, scale |-> 1],
      [class |-> "Normal", loc |-> 1, scale |-> 1],
      [class |-> "Normal", loc |-> 0, scale |-> 2] }

\* Polynomials.__init__(distributions, degree)
Polynomials(distributions, degree) ==
    [ distributions |-> distributions, degree |-> degree + 1 ]

\* Hermite.__init__(degree, distribution): the base constructor runs, then
\* the degree is assigned again (line 21)
Hermite(degree, distribution) ==
    LET base == Polynomials(distribution, degree)
    IN [ distributions |-> base.distributions,
         degree |-> degree,
         pdf |-> <<"pdf", base.distributions>> ]

\* Polynomials.normalized(degree, samples, a, b, pdf_st, p): the design
\* matrix, one column per normalized polynomial, and the normalized
\* polynomials
normalized(degree, samples, p) ==
    LET pol_normed == [i \in 1..degree |->
                          [degree |-> p[i].degree, norm |-> <<"quad", p[i], p[i]>>]]
    IN << [shape |-> <<samples.shape[1], degree>>, columns |-> pol_normed],
          pol_normed >>

\* Hermite.get_polys(x)
get_polys(self, x) ==
    LET mean_ == <<"m", self.distributions>>
        std_ == <<"sqrt", <<"v", self.distributions>>>>
        x_ == [shape |-> x.shape, term |-> <<"standardize_normal", mean_, std_>>]
        p == [i \in 1..self.degree |-> [degree |-> i - 1, family |-> "hermitenorm"]]
    IN normalized(self.degree, x_, p)

HermiteInit ==
    /\ hermite = None
    /\ NoRegressor
    /\ projection = None
    /\ reconstruction = None
    /\ manifold = None
    /\ manifold_point = None
    /\ process = None
    /\ selection = None
    /\ taylor = None
    /\ series = None

\* Hermite(degree, distribution) is called
HermiteConstruct ==
    /\ hermite = None
    /\ \E degree \in 0..MaxDegree, distribution \in HermiteDistributions :
        hermite' = [ degree |-> degree, self |-> Hermite(degree, distribution),
                     ret |-> None ]
    /\ UNCHANGED not_pce

\* get_polys is called on the constructed object with one to MaxRows samples
HermiteGetPolys ==
    /\ hermite # None
    /\ hermite.ret = None
    /\ \E n \in 1..MaxRows :
        hermite' = [hermite EXCEPT !.ret = get_polys(hermite.self, [shape |-> <<n>>])]
    /\ UNCHANGED not_pce

HermiteNext ==
    \/ HermiteConstruct
    \/ HermiteGetPolys

HermiteSpec == HermiteInit /\ [][HermiteNext]_vars

----------------------------------------------------------------------------
(* Properties of the Hermite polynomials                                   *)

\* C22: Hermite(degree=d, distribution).get_polys(x) treats d as the maximum
\* degree: the design matrix has d + 1 columns and there are d + 1 normalized
\* polynomials, of the degrees 0, ..., d.
C22_DegreeIsMaximumDegree ==
    (hermite # None /\ hermite.ret # None) =>
        /\ hermite.ret[1].shape[2] = hermite.degree + 1
        /\ Len(hermite.ret[2]) = hermite.degree + 1
        /\ \A i \in 1..Len(hermite.ret[2]) : hermite.ret[2][i].degree = i - 1
        /\ \E i \in 1..Len(hermite.ret[2]) : hermite.ret[2][i].degree = hermite.degree

====
